---- MODULE Spec2Model ----
(***************************************************************************)
(* Model of qr-code-forge's logo embedding: the minimal PNG codec          *)
(* (decodePNG / unfilterPNG / encodePNG / makeChunk / crc32), the raster   *)
(* helpers (scaleImage / fillRect / compositeOver) and the embedLogo       *)
(* orchestrator of src/src/logo/embedLogo.ts.                              *)
(*                                                                         *)
(* Buffers are sequences of bytes (TLA+ index = JS index + 1).  A RawImage *)
(* is a record [width, height, data] with data the RGBA bytes, row-major.  *)
(* 32-bit unsigned values that do not fit TLC's integers (the CRC) are     *)
(* pairs <<high 16 bits, low 16 bits>>.                                    *)
(***************************************************************************)
EXTENDS Integers, Sequences, FiniteSets, TLC

VARIABLES
    image,      \* codec: the RawImage handed to encodePNG
    enc,        \* codec: state of the encodePNG call
    buf,        \* codec: the buffer handed to decodePNG
    dec,        \* codec: state of the decodePNG call
    dstImg,     \* raster: the destination RawImage (mutated in place)
    srcImg,     \* raster: the source RawImage (read only)
    op,         \* raster: the last raster operation applied and its arguments
    scaled,     \* raster: the RawImage returned by scaleImage
    params,     \* embedLogo: qrBuffer, the logo the loader yields, sizePercent, margin
    pc,         \* embedLogo: position of the call
    qrDec,      \* embedLogo: state of decodePNG(qrBuffer)
    logoDec,    \* embedLogo: state of decodePNG(logoBytes)
    qrImage,    \* embedLogo: the decoded base image, written by fillRect/compositeOver
    box,        \* embedLogo: the layout computed in step 3 and 5
    outEnc,     \* embedLogo: state of encodePNG(qrImage)
    outcome,    \* embedLogo: how the promise settled
    gen,        \* generateQRCode (format png, with a logo): how its promise settled
    unf,        \* pure calls: one unfilterPNG call, its arguments and its output
    crcCall,    \* pure calls: one crc32 call, its argument and its result
    calls,      \* concurrency: the state of each of two embedLogo calls
    table,      \* concurrency: the module-level crcTable the calls share
    strm,       \* stream: one decodePNG call at the level of the decompressor's events
    hook,       \* React: the useQRCode hook of one mounted component
    api,        \* generateQRCode: one call, its options, the calls it made, its outcome
    reg,        \* formatters: the registry and the last formatContent call
    card        \* formatters: one formatContact call

vars == <<image, enc, buf, dec, dstImg, srcImg, op, scaled,
          params, pc, qrDec, logoDec, qrImage, box, outEnc, outcome, gen,
          unf, crcCall, calls, table, strm, hook, api, reg, card>>

codecVars == <<image, enc, buf, dec>>
rasterVars == <<dstImg, srcImg, op, scaled>>
embedVars == <<params, pc, qrDec, logoDec, qrImage, box, outEnc, outcome, gen>>
pureVars == <<unf, crcCall>>
twoVars == <<calls, table>>
streamVars == <<strm>>
hookVars == <<hook>>
apiVars == <<api, reg, card>>
restVars == <<pureVars, twoVars, streamVars, hookVars, apiVars>>

-----------------------------------------------------------------------------
(* Bounds of the model *)

MaxW == 2          \* largest width of a raster handed to the codec
MaxH == 2          \* largest height of a raster handed to the codec

-----------------------------------------------------------------------------
(* JavaScript values and arithmetic *)

\* The value `undefined` (an out-of-range element read); NaN in arithmetic.
Undefined == -1

Min(a, b) == IF a <= b THEN a ELSE b
Abs(a) == IF a < 0 THEN 0 - a ELSE a

\* Math.round(n / d) for d > 0: the nearest integer, ties towards +Infinity.
RoundDiv(n, d) == (2 * n + d) \div (2 * d)

\* buf[i] for a JS index i.
At(b, i) == IF i >= 0 /\ i < Len(b) THEN b[i + 1] ELSE Undefined

\* Storing a value into a Uint8Array element: undefined/NaN is stored as 0,
\* a store outside the array is ignored.
ToUint8(v) == IF v = Undefined THEN 0 ELSE v % 256
Store(b, i, v) == IF i >= 0 /\ i < Len(b) THEN [b EXCEPT ![i + 1] = ToUint8(v)] ELSE b

\* buf.subarray(start, end): both ends clamped to the buffer.
Subarray(b, start, end) ==
    LET s == Min(start, Len(b))
        e == Min(end, Len(b))
    IN  IF s >= e THEN << >> ELSE SubSeq(b, s + 1, e)

Zeros(n) == [i \in 1..n |-> 0]

\* for (k = lo; k <= hi; k++) acc = Step(acc, k).  The range is halved and the
\* first half's result evaluated before the second half starts, which keeps
\* the depth of TLC's evaluation logarithmic in the number of iterations.
RECURSIVE Loop(_, _, _, _)
Loop(Step(_, _), lo, hi, acc) ==
    IF lo > hi THEN acc
    ELSE IF lo = hi THEN Step(acc, lo)
    ELSE LET mid == (lo + hi) \div 2
             first == Loop(Step, lo, mid, acc)
         IN  IF first = first THEN Loop(Step, mid + 1, hi, first) ELSE first

\* writeUInt32BE for values below 2^31 (every width, height and length here).
U32BE(n) == << (n \div 16777216) % 256, (n \div 65536) % 256, (n \div 256) % 256, n % 256 >>

\* readUInt32BE(off): a RangeError (Undefined here) when the 4 bytes are not all there.
ReadU32BE(b, off) ==
    IF off < 0 \/ off + 4 > Len(b) THEN Undefined
    ELSE b[off + 1] * 16777216 + b[off + 2] * 65536 + b[off + 3] * 256 + b[off + 4]

RECURSIVE BitXor(_, _)
BitXor(a, b) ==
    IF a = 0 THEN b
    ELSE IF b = 0 THEN a
    ELSE 2 * BitXor(a \div 2, b \div 2) + ((a + b) % 2)

\* 32-bit words as <<hi, lo>> halves of 16 bits.
Xor32(x, y) == << BitXor(x[1], y[1]), BitXor(x[2], y[2]) >>
Shr1(x) == << x[1] \div 2, (x[2] \div 2) + (x[1] % 2) * 32768 >>
Shr8(x) == << x[1] \div 256, (x[2] \div 256) + (x[1] % 256) * 256 >>
Bytes32(x) == << x[1] \div 256, x[1] % 256, x[2] \div 256, x[2] % 256 >>

-----------------------------------------------------------------------------
(* CRC-32 *)

CrcPoly == << 60856, 33568 >>      \* 0xedb88320

RECURSIVE CrcEntry(_, _)
CrcEntry(c, k) ==
    IF k = 0 THEN c
    ELSE CrcEntry(IF c[2] % 2 = 1 THEN Xor32(CrcPoly, Shr1(c)) ELSE Shr1(c), k - 1)

crcTable == [n \in 0..255 |-> CrcEntry(<<0, n>>, 8)]

\* crc = crcTable[(crc ^ buf[i]) & 0xff] ^ (crc >>> 8), on the table as it stands.
CrcStepOn(t, b, crc, i) == Xor32(t[BitXor(crc[2] % 256, b[i])], Shr8(crc))
CrcStep(b, crc, i) == CrcStepOn(crcTable, b, crc, i)

\* crc32 reading the table t.
crc32On(t, b) ==
    Xor32(Loop(LAMBDA crc, i : CrcStepOn(t, b, crc, i), 1, Len(b), <<65535, 65535>>),
          <<65535, 65535>>)

\* crc32 without the final complement.
crc32NoFinalXor(b) ==
    Loop(LAMBDA crc, i : CrcStep(b, crc, i), 1, Len(b), <<65535, 65535>>)

crc32(b) ==
    Xor32(Loop(LAMBDA crc, i : CrcStep(b, crc, i), 1, Len(b), <<65535, 65535>>),
          <<65535, 65535>>)

-----------------------------------------------------------------------------
(* node:zlib, at its boundary: createDeflate / createInflate are an exact   *)
(* inverse pair on the streams deflate produces; any other stream makes     *)
(* inflate emit 'error'.  A stream is a 2-byte header, the stored bytes and *)
(* a one-byte checksum.                                                     *)

ZlibHeader == << 120, 156 >>

SumBytes(b) == Loop(LAMBDA acc, i : (3 * acc + b[i]) % 251, 1, Len(b), 1)

Deflate(raw) == ZlibHeader \o raw \o << SumBytes(raw) >>

Inflate(z) ==
    IF Len(z) >= 3 /\ SubSeq(z, 1, 2) = ZlibHeader
       /\ z[Len(z)] = SumBytes(SubSeq(z, 3, Len(z) - 1))
    THEN [ok |-> TRUE, raw |-> SubSeq(z, 3, Len(z) - 1)]
    ELSE [ok |-> FALSE, raw |-> << >>]

-----------------------------------------------------------------------------
(* Minimal PNG codec: encoder *)

PNG_SIG == << 137, 80, 78, 71, 13, 10, 26, 10 >>

IHDR == << 73, 72, 68, 82 >>
IDAT == << 73, 68, 65, 84 >>
IEND == << 73, 69, 78, 68 >>

NoImage == [width |-> 0, height |-> 0, data |-> << >>]

\* makeChunk and the deflate 'end' handler of encodePNG, on the table as it stands.
makeChunkOn(t, type, data) ==
    U32BE(Len(data)) \o type \o data \o Bytes32(crc32On(t, type \o data))

\* makeChunk with the checksum taken over the data alone.
makeChunkCrcOfData(type, data) ==
    U32BE(Len(data)) \o type \o data \o Bytes32(crc32(data))

makeChunk(type, data) ==
    U32BE(Len(data)) \o type \o data \o Bytes32(crc32(type \o data))

\* Scanline announcing filter type 1 (Sub) over unfiltered bytes.
ScanlineSubByte(img, y) ==
    << 1 >> \o [k \in 1..(img.width * 4) |-> ToUint8(At(img.data, y * img.width * 4 + k - 1))]

\* One scanline of rawBuf: filter byte 0 (None), then the row's RGBA bytes.
Scanline(img, y) ==
    << 0 >> \o [k \in 1..(img.width * 4) |-> ToUint8(At(img.data, y * img.width * 4 + k - 1))]

\* rawBuf of encodePNG: the scanlines, each with filter byte 0.
RawScanlines(img) ==
    Loop(LAMBDA rawBuf, y : rawBuf \o Scanline(img, y), 0, img.height - 1, << >>)

IhdrBody(width, height) == U32BE(width) \o U32BE(height) \o << 8, 6, 0, 0, 0 >>

\* The deflate 'end' handler of encodePNG: the bytes the promise resolves with.
AssemblePNG(width, height, compressed) ==
    PNG_SIG \o makeChunk(IHDR, IhdrBody(width, height))
            \o makeChunk(IDAT, compressed)
            \o makeChunk(IEND, << >>)

AssemblePNGOn(t, width, height, compressed) ==
    PNG_SIG \o makeChunkOn(t, IHDR, U32BE(width) \o U32BE(height) \o << 8, 6, 0, 0, 0 >>)
            \o makeChunkOn(t, IDAT, compressed)
            \o makeChunkOn(t, IEND, << >>)

EncIdle == [st |-> "idle", width |-> 0, height |-> 0, rawBuf |-> << >>, out |-> << >>]

\* encodePNG up to deflate.end(rawBuf): the promise is pending on the compressor.
EncodeStart(img) ==
    [st |-> "deflating", width |-> img.width, height |-> img.height,
     rawBuf |-> RawScanlines(img), out |-> << >>]

\* The compressor's 'end' event.
EncodeEnd(e) ==
    [e EXCEPT !.st = "resolved",
              !.out = AssemblePNG(e.width, e.height, Deflate(e.rawBuf))]

-----------------------------------------------------------------------------
(* Minimal PNG codec: decoder *)

\* paethPredictor with strict comparisons: a tie no longer goes to a, then b.
paethPredictorStrict(a, b, c) ==
    IF a = Undefined \/ b = Undefined \/ c = Undefined
    THEN c
    ELSE LET p == a + b - c
             pa == Abs(p - a)
             pb == Abs(p - b)
             pc2 == Abs(p - c)
         IN  IF pa < pb /\ pa < pc2 THEN a
             ELSE IF pb < pc2 THEN b
             ELSE c

paethPredictor(a, b, c) ==
    IF a = Undefined \/ b = Undefined \/ c = Undefined
    THEN c                                  \* every comparison with NaN is false
    ELSE LET p == a + b - c
             pa == Abs(p - a)
             pb == Abs(p - b)
             pc2 == Abs(p - c)
         IN  IF pa <= pb /\ pa <= pc2 THEN a
             ELSE IF pb <= pc2 THEN b
             ELSE c

Channels(colorType) ==
    IF colorType = 6 THEN 4
    ELSE IF colorType = 2 THEN 3
    ELSE IF colorType = 4 THEN 2
    ELSE 1

\* bpp = (channels * bitDepth) / 8, kept in eighths of a byte; NaN when the
\* IHDR body had no bit depth byte.
Bpp8(colorType, bitDepth) ==
    IF bitDepth = Undefined THEN Undefined ELSE Channels(colorType) * bitDepth

\* (v + p) & 0xff, with NaN & 0xff = 0.
AddByte(v, p) == IF v = Undefined \/ p = Undefined THEN 0 ELSE (v + p) % 256

\* The reconstructed value of curRow[i] under filter type f.
Recon(f, cur, a, b, c) ==
    IF f = 1 THEN AddByte(cur, a)
    ELSE IF f = 2 THEN AddByte(cur, b)
    ELSE IF f = 3 THEN AddByte(cur, IF a = Undefined \/ b = Undefined THEN 0 ELSE (a + b) \div 2)
    ELSE IF f = 4 THEN AddByte(cur, paethPredictor(a, b, c))
    ELSE cur

\* The element bpp bytes to the left of i (0 when i < bpp; undefined when the
\* index i - bpp is not an integer).
LeftOf(row, i, bpp8) ==
    IF bpp8 = Undefined \/ 8 * i < bpp8 THEN 0
    ELSE IF bpp8 % 8 = 0 THEN At(row, i - bpp8 \div 8)
    ELSE Undefined

\* One iteration of the "Apply PNG filter" loop.
FilterStep(f, curRow, prevRow, bpp8, i) ==
    LET a == LeftOf(curRow, i, bpp8)
        b == At(prevRow, i)
        c == LeftOf(prevRow, i, bpp8)
    IN  IF f \in 1..4 THEN Store(curRow, i, Recon(f, At(curRow, i), a, b, c)) ELSE curRow

FilterRow(f, row, prevRow, bpp8, n) ==
    Loop(LAMBDA curRow, i : FilterStep(f, curRow, prevRow, bpp8, i), 0, n - 1, row)

\* The RGBA bytes of pixel x of a reconstructed row.
PixelRGBA(curRow, x, channels) ==
    IF channels = 4
    THEN << ToUint8(At(curRow, x * 4)), ToUint8(At(curRow, x * 4 + 1)),
            ToUint8(At(curRow, x * 4 + 2)), ToUint8(At(curRow, x * 4 + 3)) >>
    ELSE IF channels = 3
    THEN << ToUint8(At(curRow, x * 3)), ToUint8(At(curRow, x * 3 + 1)),
            ToUint8(At(curRow, x * 3 + 2)), 255 >>
    ELSE IF channels = 2
    THEN << ToUint8(At(curRow, x * 2)), ToUint8(At(curRow, x * 2)),
            ToUint8(At(curRow, x * 2)), ToUint8(At(curRow, x * 2 + 1)) >>
    ELSE << ToUint8(At(curRow, x)), ToUint8(At(curRow, x)), ToUint8(At(curRow, x)), 255 >>

\* The "Convert row to RGBA" loop: the output bytes of one row.
RowRGBA(curRow, width, channels) ==
    Loop(LAMBDA out, x : out \o PixelRGBA(curRow, x, channels), 0, width - 1, << >>)

\* One iteration of the scanline loop; s holds srcOff, prevRow and the output
\* written so far (rows 0 .. y-1).
UnfilterStep(raw, s, width, hdr) ==
    LET f == At(raw, s.srcOff)
        read == [i \in 1..Len(s.prevRow) |-> ToUint8(At(raw, s.srcOff + i))]
        curRow == FilterRow(f, read, s.prevRow, hdr.bpp8, hdr.n)
    IN  [srcOff |-> s.srcOff + 1 + hdr.n, prevRow |-> curRow,
         output |-> s.output \o RowRGBA(curRow, width, hdr.channels)]

unfilterPNG(raw, width, height, colorType, bitDepth) ==
    LET bpp8 == Bpp8(colorType, bitDepth)
        stride8 == IF bpp8 = Undefined THEN 0 ELSE width * bpp8
        hdr == [channels |-> Channels(colorType), bpp8 |-> bpp8,
                n |-> (stride8 + 7) \div 8]      \* iterations of `i < stride`
    IN  Loop(LAMBDA s, y : UnfilterStep(raw, s, width, hdr), 0, height - 1,
             [srcOff |-> 0, prevRow |-> Zeros(stride8 \div 8), output |-> << >>]).output

\* The ASCII type tag of the chunk at offset (the 'ascii' decoding drops bit 7).
ChunkType(b, offset) ==
    LET t == Subarray(b, offset + 4, offset + 8) IN [i \in 1..Len(t) |-> t[i] % 128]

\* The locals of decodePNG's chunk loop; types logs the tags of the chunks read
\* and offsets the value of `offset` at the start of each iteration.
WalkInit == [width |-> 0, height |-> 0, bitDepth |-> 0, colorType |-> 0,
             idatChunks |-> << >>, types |-> << >>, offsets |-> << >>, threw |-> FALSE]

\* The chunk loop without the `break` at IEND.
RECURSIVE WalkPastIend(_, _, _)
WalkPastIend(b, offset, w) ==
    IF offset >= Len(b) THEN w
    ELSE LET length == ReadU32BE(b, offset)
             type == ChunkType(b, offset)
             data == Subarray(b, offset + 8, offset + 8 + length)
             w1 == [w EXCEPT !.types = Append(@, type), !.offsets = Append(@, offset)]
         IN  IF length = Undefined
             THEN [w EXCEPT !.threw = TRUE, !.offsets = Append(@, offset)]
             ELSE IF type = IHDR
             THEN IF Len(data) < 8 THEN [w1 EXCEPT !.threw = TRUE]
                  ELSE WalkPastIend(b, offset + 12 + length,
                                    [w1 EXCEPT !.width = ReadU32BE(data, 0),
                                               !.height = ReadU32BE(data, 4),
                                               !.bitDepth = At(data, 8),
                                               !.colorType = At(data, 9)])
             ELSE IF type = IDAT
             THEN WalkPastIend(b, offset + 12 + length,
                               [w1 EXCEPT !.idatChunks = Append(@, data)])
             ELSE WalkPastIend(b, offset + 12 + length, w1)

\* The chunk loop of decodePNG from `offset`; threw is a RangeError of readUInt32BE.
RECURSIVE Walk(_, _, _)
Walk(b, offset, w) ==
    IF offset >= Len(b) THEN w
    ELSE LET length == ReadU32BE(b, offset)
             type == ChunkType(b, offset)
             data == Subarray(b, offset + 8, offset + 8 + length)
             w1 == [w EXCEPT !.types = Append(@, type), !.offsets = Append(@, offset)]
         IN  IF length = Undefined
             THEN [w EXCEPT !.threw = TRUE, !.offsets = Append(@, offset)]
             ELSE IF type = IHDR
             THEN IF Len(data) < 8 THEN [w1 EXCEPT !.threw = TRUE]
                  ELSE Walk(b, offset + 12 + length,
                            [w1 EXCEPT !.width = ReadU32BE(data, 0),
                                       !.height = ReadU32BE(data, 4),
                                       !.bitDepth = At(data, 8),
                                       !.colorType = At(data, 9)])
             ELSE IF type = IDAT
             THEN Walk(b, offset + 12 + length, [w1 EXCEPT !.idatChunks = Append(@, data)])
             ELSE IF type = IEND THEN w1
             ELSE Walk(b, offset + 12 + length, w1)

RECURSIVE Concat(_)
Concat(chunks) == IF chunks = << >> THEN << >> ELSE Head(chunks) \o Concat(Tail(chunks))

DecIdle == [st |-> "idle", err |-> "", inflate |-> "none",
            compressed |-> << >>, hdr |-> WalkInit, img |-> NoImage]

\* DecodeStart comparing only the first four signature bytes.
DecodeStartShortMagic(b) ==
    IF Len(b) < 8 \/ Subarray(b, 0, 4) # SubSeq(PNG_SIG, 1, 4)
    THEN [DecIdle EXCEPT !.st = "rejected", !.err = "Not a valid PNG"]
    ELSE LET w == Walk(b, 8, WalkInit)
         IN  IF w.threw
             THEN [DecIdle EXCEPT !.st = "rejected", !.err = "RangeError", !.hdr = w]
             ELSE IF w.width = 0 \/ w.height = 0
             THEN [DecIdle EXCEPT !.st = "rejected", !.err = "Invalid PNG: missing IHDR",
                                  !.hdr = w]
             ELSE [DecIdle EXCEPT !.st = "inflating", !.hdr = w,
                                  !.inflate = "started",
                                  !.compressed = Concat(w.idatChunks)]

\* The executor of decodePNG's promise, up to inflate.end(compressed).
DecodeStart(b) ==
    IF Len(b) < 8 \/ Subarray(b, 0, 8) # PNG_SIG
    THEN [DecIdle EXCEPT !.st = "rejected", !.err = "Not a valid PNG"]
    ELSE LET w == Walk(b, 8, WalkInit)
         IN  IF w.threw
             THEN [DecIdle EXCEPT !.st = "rejected", !.err = "RangeError", !.hdr = w]
             ELSE IF w.width = 0 \/ w.height = 0
             THEN [DecIdle EXCEPT !.st = "rejected", !.err = "Invalid PNG: missing IHDR",
                                  !.hdr = w]
             ELSE [DecIdle EXCEPT !.st = "inflating", !.hdr = w,
                                  !.inflate = "started",
                                  !.compressed = Concat(w.idatChunks)]

\* DecodeSettle rejecting a decompressed stream that is not height * (1 + stride)
\* bytes long.
DecodeSettleStrict(d) ==
    LET r == Inflate(d.compressed)
        bpp8 == Bpp8(d.hdr.colorType, d.hdr.bitDepth)
    IN  IF r.ok /\ bpp8 # Undefined
           /\ Len(r.raw) = d.hdr.height * (1 + (d.hdr.width * bpp8 + 7) \div 8)
        THEN [d EXCEPT !.st = "resolved", !.inflate = "ended",
                       !.img = [width |-> d.hdr.width, height |-> d.hdr.height,
                                data |-> unfilterPNG(r.raw, d.hdr.width, d.hdr.height,
                                                     d.hdr.colorType, d.hdr.bitDepth)]]
        ELSE [d EXCEPT !.st = "rejected", !.inflate = "failed", !.err = "zlib error"]

\* The decompressor's 'end' event (after its 'data' events) or its 'error' event.
DecodeSettle(d) ==
    LET r == Inflate(d.compressed)
    IN  IF r.ok
        THEN [d EXCEPT !.st = "resolved", !.inflate = "ended",
                       !.img = [width |-> d.hdr.width, height |-> d.hdr.height,
                                data |-> unfilterPNG(r.raw, d.hdr.width, d.hdr.height,
                                                     d.hdr.colorType, d.hdr.bitDepth)]]
        ELSE [d EXCEPT !.st = "rejected", !.inflate = "failed", !.err = "zlib error"]

-----------------------------------------------------------------------------
(* Image helpers.  Divisions of the source are evaluated exactly; on the   *)
(* inputs of this model the exact value and the IEEE double value round to *)
(* the same integer.                                                        *)

\* SrcCoord sampling at the pixel's far edge: ceil((v + 1/2) * srcN / dstN).
SrcCoordCeil(v, dstN, srcN) ==
    Min(((2 * v + 1) * srcN + 2 * dstN - 1) \div (2 * dstN), srcN - 1)

\* Nearest-neighbour source coordinate of destination coordinate v.
SrcCoord(v, dstN, srcN) == Min(RoundDiv(v * srcN, dstN), srcN - 1)

scaleImage(src, dstW, dstH) ==
    [width |-> dstW, height |-> dstH,
     data |-> [k \in 1..(dstW * dstH * 4) |->
                 LET di == (k - 1) \div 4
                     x == di % dstW
                     y == di \div dstW
                     srcY == SrcCoord(y, dstH, src.height)
                     srcX == SrcCoord(x, dstW, src.width)
                     si == (srcY * src.width + srcX) * 4
                 IN  ToUint8(At(src.data, si + ((k - 1) % 4)))]]

\* The four stores of one loop iteration: img.data[idx .. idx+3] = px.
StorePixel(data, idx, px) ==
    Store(Store(Store(Store(data, idx, px[1]), idx + 1, px[2]), idx + 2, px[3]), idx + 3, px[4])

\* FillStep without the test against the right edge: the write wraps.
FillStepNoRightEdge(img, x, y, dx, dy, rgba) ==
    LET px == x + dx
        py == y + dy
    IN  IF px < 0 \/ py < 0 \/ py >= img.height THEN img
        ELSE [img EXCEPT !.data = StorePixel(@, (py * img.width + px) * 4, rgba)]

\* The body of fillRect's loops at (dx, dy).
FillStep(img, x, y, dx, dy, rgba) ==
    LET px == x + dx
        py == y + dy
    IN  IF px < 0 \/ px >= img.width \/ py < 0 \/ py >= img.height THEN img
        ELSE [img EXCEPT !.data = StorePixel(@, (py * img.width + px) * 4, rgba)]

\* The nested loops, dy outer and dx inner: iteration k is (k % w, k \div w).
fillRect(img, x, y, w, h, rgba) ==
    IF w <= 0 \/ h <= 0 THEN img
    ELSE Loop(LAMBDA im, k : FillStep(im, x, y, k % w, k \div w, rgba), 0, w * h - 1, img)

\* BlendPixel without the division by outA (the colour stays premultiplied).
BlendPixelPremultiplied(s, d) ==
    LET sA == s[4]
        dA == d[4]
        outA255 == 255 * sA + dA * (255 - sA)
        Chan(sc, dc) == ToUint8(RoundDiv(255 * sc * sA + dc * dA * (255 - sA), 65025))
    IN  IF outA255 = 0 THEN << 0, 0, 0, 0 >>
        ELSE << Chan(s[1], d[1]), Chan(s[2], d[2]), Chan(s[3], d[3]),
                ToUint8(RoundDiv(outA255, 255)) >>

\* BlendPixel with outA = sa + da, the (1 - sa) factor forgotten.
BlendPixelAlphaSum(s, d) ==
    LET sA == s[4]
        dA == d[4]
        outA255 == 255 * sA + 255 * dA
        Chan(sc, dc) == ToUint8(RoundDiv(255 * sc * sA + dc * dA * (255 - sA), outA255))
    IN  IF outA255 = 0 THEN << 0, 0, 0, 0 >>
        ELSE << Chan(s[1], d[1]), Chan(s[2], d[2]), Chan(s[3], d[3]),
                ToUint8(Min(255, RoundDiv(outA255, 255))) >>

\* Source-over of one pixel, straight alpha: sa = s[4]/255, da = d[4]/255,
\* outA = sa + da * (1 - sa) = outA255 / 255^2.
BlendPixel(s, d) ==
    LET sA == s[4]
        dA == d[4]
        outA255 == 255 * sA + dA * (255 - sA)
        Chan(sc, dc) ==
            IF sc = Undefined \/ dc = Undefined THEN 0      \* Math.round(NaN) stored as 0
            ELSE ToUint8(RoundDiv(255 * sc * sA + dc * dA * (255 - sA), outA255))
    IN  IF sA = Undefined \/ dA = Undefined THEN << 0, 0, 0, 0 >>   \* outA is NaN
        ELSE IF outA255 = 0 THEN << 0, 0, 0, 0 >>
        ELSE << Chan(s[1], d[1]), Chan(s[2], d[2]), Chan(s[3], d[3]),
                ToUint8(RoundDiv(outA255, 255)) >>

PixelAt(data, idx) ==
    << At(data, idx), At(data, idx + 1), At(data, idx + 2), At(data, idx + 3) >>

\* The body of compositeOver's loops at source pixel (x, y).
CompositeStep(dst, src, ox, oy, x, y) ==
    LET dx == ox + x
        dy == oy + y
        si == (y * src.width + x) * 4
        di == (dy * dst.width + dx) * 4
    IN  IF dx < 0 \/ dx >= dst.width \/ dy < 0 \/ dy >= dst.height THEN dst
        ELSE [dst EXCEPT !.data =
                 StorePixel(@, di, BlendPixel(PixelAt(src.data, si), PixelAt(dst.data, di)))]

\* The nested loops, y outer and x inner.
compositeOver(dst, src, ox, oy) ==
    IF src.width <= 0 \/ src.height <= 0 THEN dst
    ELSE Loop(LAMBDA im, k : CompositeStep(im, src, ox, oy, k % src.width, k \div src.width),
              0, src.width * src.height - 1, dst)

-----------------------------------------------------------------------------
(* embedLogo *)

\* White with alpha 0.
ClearWhite == << 255, 255, 255, 0 >>

\* The colour embedLogo fills the box with.
White == << 255, 255, 255, 255 >>

MsgQr == "Failed to decode QR PNG image."
MsgLogo == "Failed to decode logo image. Only PNG format is supported for logo embedding."
MsgNotFound == "Logo file not found"

\* Steps 3 and 5 of embedLogo: the target size of the logo and the centred box.
\* Layout centring the logo itself and forgetting the margin in the offsets.
LayoutCentredOnLogo(qrW, qrH, logoW, logoH, sizePercent, margin) ==
    LET targetWidth == RoundDiv(qrW * sizePercent, 100)
        targetHeight == RoundDiv(targetWidth * logoH, logoW)
    IN  [targetWidth |-> targetWidth, targetHeight |-> targetHeight,
         totalWidth |-> targetWidth + margin * 2,
         totalHeight |-> targetHeight + margin * 2,
         offsetX |-> RoundDiv(qrW - targetWidth, 2),
         offsetY |-> RoundDiv(qrH - targetHeight, 2)]

\* Steps 3 and 5 of embedLogo: the logo's target size, the box and its offsets.
Layout(qrW, qrH, logoW, logoH, sizePercent, margin) ==
    LET targetWidth == RoundDiv(qrW * sizePercent, 100)
        targetHeight == RoundDiv(targetWidth * logoH, logoW)
        totalWidth == targetWidth + margin * 2
        totalHeight == targetHeight + margin * 2
    IN  [targetWidth |-> targetWidth, targetHeight |-> targetHeight,
         totalWidth |-> totalWidth, totalHeight |-> totalHeight,
         offsetX |-> RoundDiv(qrW - totalWidth, 2),
         offsetY |-> RoundDiv(qrH - totalHeight, 2)]

NoBox == Layout(0, 0, 1, 1, 0, 0)

\* Steps 4 and 5: the base image after fillRect and compositeOver.
Compose(qr, logo, l, margin) ==
    compositeOver(fillRect(qr, l.offsetX, l.offsetY, l.totalWidth, l.totalHeight, White),
                  scaleImage(logo, l.targetWidth, l.targetHeight),
                  l.offsetX + margin, l.offsetY + margin)

\* The rasters of one embedLogo call as objects: each helper writes the object
\* it is handed as destination and no other.
ScaleInto(h, src, dst, l) ==
    [h EXCEPT ![dst] = scaleImage(h[src], l.targetWidth, l.targetHeight)]
FillOn(h, img, l) ==
    [h EXCEPT ![img] = fillRect(h[img], l.offsetX, l.offsetY, l.totalWidth, l.totalHeight, White)]
CompositeOn(h, dst, src, l, margin) ==
    [h EXCEPT ![dst] = compositeOver(h[dst], h[src], l.offsetX + margin, l.offsetY + margin)]

\* Steps 4 and 5 with the logo scaled in place instead of into a new raster.
ComposeRastersInPlace(qr, logo, l, margin) ==
    CompositeOn(FillOn(ScaleInto([qrImage |-> qr, logoImage |-> logo, scaledLogo |-> NoImage],
                                 "logoImage", "logoImage", l),
                       "qrImage", l),
                "qrImage", "logoImage", l, margin)

\* Steps 4 and 5: qrImage, logoImage and scaledLogo after them.
ComposeRasters(qr, logo, l, margin) ==
    CompositeOn(FillOn(ScaleInto([qrImage |-> qr, logoImage |-> logo, scaledLogo |-> NoImage],
                                 "logoImage", "scaledLogo", l),
                       "qrImage", l),
                "qrImage", "scaledLogo", l, margin)

NoOutcome == [kind |-> "pending", error |-> "", message |-> "", data |-> << >>]
Rejected(error, message) ==
    [kind |-> "rejected", error |-> error, message |-> message, data |-> << >>]
Resolved(data) == [kind |-> "resolved", error |-> "", message |-> "", data |-> data]

-----------------------------------------------------------------------------
(* Inputs *)

Colors == { << 0, 0, 0 >>, << 255, 255, 255 >>, << 255, 0, 77 >>, << 10, 200, 77 >> }
Alphas == { 0, 1, 128, 255 }
Pixels == { << c[1], c[2], c[3], a >> : c \in Colors, a \in Alphas }

Red == << 255, 0, 0, 255 >>
Faint == << 1, 2, 3, 0 >>

\* A width x height raster whose pixel number i (row-major, from 1) is pix[i].
ImageOf(width, height, pix) ==
    [width |-> width, height |-> height,
     data |-> [k \in 1..(width * height * 4) |-> pix[((k - 1) \div 4) + 1][((k - 1) % 4) + 1]]]

\* Every pixel differs from every other one; all alpha values occur.
PatternPixel(x, y) ==
    << 10 * x + 1, 10 * y + 2, 77, IF (x + y) % 3 = 0 THEN 255 ELSE IF (x + y) % 3 = 1 THEN 128 ELSE 0 >>
PatternImage(width, height) ==
    ImageOf(width, height,
            [i \in 1..(width * height) |-> PatternPixel((i - 1) % width, (i - 1) \div width)])

\* A black and white module pattern, opaque, as a QR encoder renders it.
ModuleImage(width, height) ==
    ImageOf(width, height,
            [i \in 1..(width * height) |->
                IF (((i - 1) % width) + ((i - 1) \div width)) % 2 = 0
                THEN << 0, 0, 0, 255 >> ELSE White])

\* The rasters of the given size with every pixel Red or Faint.
TwoToneImages(width, height) ==
    { ImageOf(width, height, [i \in 1..(width * height) |-> IF i \in S THEN Red ELSE Faint]) :
        S \in SUBSET (1..(width * height)) }

\* A PNG file as a test writes it: signature, IHDR, the IDAT chunks, IEND.
IhdrOf(width, height, bitDepth, colorType) ==
    makeChunk(IHDR, U32BE(width) \o U32BE(height) \o << bitDepth, colorType, 0, 0, 0 >>)
PngFile(width, height, bitDepth, colorType, raw) ==
    PNG_SIG \o IhdrOf(width, height, bitDepth, colorType)
            \o makeChunk(IDAT, Deflate(raw)) \o makeChunk(IEND, << >>)
PngOf(img) == PngFile(img.width, img.height, 8, 6, RawScanlines(img))

\* "this is not a PNG"
NotAPng == << 116, 104, 105, 115, 32, 105, 115, 32, 110, 111, 116, 32, 97, 32, 80, 78, 71 >>

\* The rasters handed to encodePNG: every size up to MaxW x MaxH (0 included).
CodecImages ==
    UNION { TwoToneImages(w, h) : w \in 0..MaxW, h \in 0..MaxH }
    \cup { ImageOf(1, 1, << p >>) : p \in Pixels }

RedRaw == RawScanlines(ImageOf(1, 1, << Red >>))
RedIdat == makeChunk(IDAT, Deflate(RedRaw))
RedIhdr == IhdrOf(1, 1, 8, 6)
EndChunk == makeChunk(IEND, << >>)
TextChunk == makeChunk(<< 116, 69, 88, 116 >>, << 113, 114 >>)

\* Buffers whose first 8 bytes are not the signature.
BadSignatureBuffers ==
    { << >>,
      SubSeq(PNG_SIG, 1, 7),
      NotAPng,
      [PNG_SIG EXCEPT ![1] = 0] \o RedIhdr \o RedIdat \o EndChunk,
      [PNG_SIG EXCEPT ![8] = 13] \o RedIhdr \o RedIdat \o EndChunk,
      Tail(PNG_SIG) \o RedIhdr \o RedIdat \o EndChunk,
      << 255, 216, 255, 224, 0, 16, 74, 70, 73, 70 >> }

\* Buffers that start with the signature, by their chunk sequence.
IdatFirstPng == PNG_SIG \o RedIdat \o RedIhdr \o EndChunk
\* A 1x2 grayscale image with 16-bit samples (257, then 772).
DeepGrayPng == PngFile(1, 2, 16, 0, << 0, 1, 1, 0, 3, 4 >>)
\* A complete image followed by a tEXt chunk whose length field says 1000 bytes
\* while one byte is left.
OverlongTextPng ==
    PNG_SIG \o RedIhdr \o RedIdat \o << 0, 0, 3, 232 >> \o << 116, 69, 88, 116 >> \o << 113 >>
\* An IHDR chunk whose length field says 13 bytes while four are left.
OverlongIhdrPng == PNG_SIG \o << 0, 0, 0, 13 >> \o IHDR \o << 0, 0, 0, 1 >>
SignedBuffers ==
    { PNG_SIG,
      OverlongTextPng,
      OverlongIhdrPng,
      IdatFirstPng,
      PNG_SIG \o TextChunk \o RedIdat \o RedIhdr \o EndChunk,
      PNG_SIG \o RedIdat \o EndChunk,
      PNG_SIG \o RedIdat \o EndChunk \o RedIhdr,
      PNG_SIG \o RedIhdr \o EndChunk,
      PNG_SIG \o RedIhdr \o EndChunk \o RedIdat,
      PNG_SIG \o RedIhdr \o makeChunk(IDAT, << 1, 2, 3 >>) \o EndChunk,
      PNG_SIG \o RedIhdr \o makeChunk(IDAT, SubSeq(Deflate(RedRaw), 1, 3))
              \o makeChunk(IDAT, SubSeq(Deflate(RedRaw), 4, Len(Deflate(RedRaw)))) \o EndChunk,
      PNG_SIG \o TextChunk \o RedIhdr \o RedIdat \o EndChunk,
      PNG_SIG \o RedIhdr \o RedIdat,
      PNG_SIG \o << 0, 0 >>,
      PNG_SIG \o makeChunk(IHDR, << 0, 0, 0, 1 >>),
      PNG_SIG \o IhdrOf(0, 1, 8, 6) \o RedIdat \o EndChunk,
      PNG_SIG \o IhdrOf(1, 0, 8, 6) \o RedIdat \o EndChunk,
      PngFile(2, 1, 8, 2, << 1, 10, 20, 30, 5, 5, 5 >>),
      PngFile(1, 2, 8, 4, << 0, 9, 200, 2, 1, 1 >>),
      PngFile(2, 2, 8, 0, << 3, 10, 20, 4, 7, 250 >>),
      PngFile(2, 2, 8, 3, << 0, 1, 2 >>),
      DeepGrayPng,
      PngFile(2, 1, 4, 0, << 1, 18 >>),
      PngFile(1, 2, 16, 6, << 0, 1, 2, 3, 4, 5, 6, 7, 8, 1, 1, 1, 1, 1, 1, 1, 1, 1 >>),
      PngFile(2, 1, 1, 2, << 1, 10, 20, 30, 40, 50, 60 >>) }

Buffers == BadSignatureBuffers \cup SignedBuffers

-----------------------------------------------------------------------------
(* Specification of the codec: one encodePNG call on a chosen raster,      *)
(* followed by decodePNG of its output, or one decodePNG call on a chosen   *)
(* buffer.                                                                  *)

RasterIdle ==
    /\ dstImg = NoImage
    /\ srcImg = NoImage
    /\ op = [name |-> "none", x |-> 0, y |-> 0, w |-> 0, h |-> 0, before |-> NoImage]
    /\ scaled = NoImage

NoParams == [qrBuffer |-> << >>, logo |-> [found |-> FALSE, bytes |-> << >>],
             sizePercent |-> 0, margin |-> 0]

EmbedIdle ==
    /\ params = NoParams
    /\ pc = "idle"
    /\ qrDec = DecIdle
    /\ logoDec = DecIdle
    /\ qrImage = NoImage
    /\ box = NoBox
    /\ outEnc = EncIdle
    /\ outcome = NoOutcome
    /\ gen = NoOutcome

\* No unfilterPNG and no crc32 call.
NoUnfilter == [raw |-> << >>, width |-> 0, height |-> 0, colorType |-> 0, bitDepth |-> 0,
               done |-> FALSE, output |-> << >>]
NoCrc == [input |-> << >>, done |-> FALSE, result |-> << 0, 0 >>]
PureIdle == unf = NoUnfilter /\ crcCall = NoCrc
TwoIdle == calls = << >> /\ table = << >>
StreamIdle == strm = << >>
HookIdle == hook = << >>
ApiIdle == api = << >> /\ reg = << >> /\ card = << >>
RestIdle == PureIdle /\ TwoIdle /\ StreamIdle /\ HookIdle /\ ApiIdle

CodecIdle ==
    /\ image = NoImage
    /\ enc = EncIdle
    /\ buf = << >>
    /\ dec = DecIdle

InitCodec ==
    /\ image \in CodecImages
    /\ enc = EncIdle
    /\ buf = << >>
    /\ dec = DecIdle
    /\ RasterIdle
    /\ EmbedIdle
    /\ RestIdle

\* encodePNG(image), up to the point where the promise waits for the compressor.
Encode ==
    /\ enc.st = "idle"
    /\ dec.st = "idle"
    /\ enc' = EncodeStart(image)
    /\ UNCHANGED <<image, buf, dec, rasterVars, embedVars, restVars>>

\* The compressor ends: encodePNG resolves.
EncodeDone ==
    /\ enc.st = "deflating"
    /\ enc' = EncodeEnd(enc)
    /\ UNCHANGED <<image, buf, dec, rasterVars, embedVars, restVars>>

\* decodePNG on the bytes encodePNG resolved with.
DecodeEncoded ==
    /\ enc.st = "resolved"
    /\ dec.st = "idle"
    /\ buf' = enc.out
    /\ dec' = DecodeStart(enc.out)
    /\ UNCHANGED <<image, enc, rasterVars, embedVars, restVars>>

\* decodePNG on a buffer from elsewhere.
DecodeBuffer ==
    /\ enc.st = "idle"
    /\ dec.st = "idle"
    /\ \E b \in Buffers :
          /\ buf' = b
          /\ dec' = DecodeStart(b)
    /\ UNCHANGED <<image, enc, rasterVars, embedVars, restVars>>

\* The decompressor settles: decodePNG resolves or rejects.
DecodeDone ==
    /\ dec.st = "inflating"
    /\ dec' = DecodeSettle(dec)
    /\ UNCHANGED <<image, enc, buf, rasterVars, embedVars, restVars>>

NextCodec == Encode \/ EncodeDone \/ DecodeEncoded \/ DecodeBuffer \/ DecodeDone

SpecCodec == InitCodec /\ [][NextCodec]_vars

-----------------------------------------------------------------------------
(* Properties of the codec *)

Settled(d) == d.st \in {"resolved", "rejected"}

\* The decodePNG call ran on the bytes the encodePNG call resolved with.
RoundTripped == enc.st = "resolved" /\ buf = enc.out /\ Settled(dec)

\* C1 as stated: for any raster (any width and height, data of width*height*4
\* bytes) decodePNG(encodePNG(R)) resolves with R's width, height and bytes.
C1_RoundTripAnyRaster ==
    RoundTripped => (dec.st = "resolved" /\ dec.img = image)

\* C1 amended: for any raster of width >= 1 and height >= 1,
\* decodePNG(encodePNG(R)) resolves with R's width, height and bytes; for a
\* raster of width 0 or height 0 it rejects ("Invalid PNG: missing IHDR").
C1_RoundTripNonEmpty ==
    RoundTripped =>
        IF image.width >= 1 /\ image.height >= 1
        THEN dec.st = "resolved" /\ dec.img = image
        ELSE dec.st = "rejected" /\ dec.err = "Invalid PNG: missing IHDR"

C1_Witness ==
    /\ RoundTripped
    /\ image.width = MaxW
    /\ image.height = MaxH
    /\ PixelAt(image.data, 0) = Red
    /\ PixelAt(image.data, 4) = Faint
    /\ dec.img = image

BadSignature(b) == Len(b) < 8 \/ SubSeq(b, 1, 8) # PNG_SIG

\* C7: decodePNG on a buffer whose first 8 bytes are not the PNG signature
\* (shorter buffers included) rejects; it reads no chunk, starts no
\* decompression and delivers no raster.
C7_BadSignatureRejected ==
    (dec.st # "idle" /\ BadSignature(buf)) =>
        /\ dec.st = "rejected"
        /\ dec.err = "Not a valid PNG"
        /\ dec.hdr.types = << >>
        /\ dec.inflate = "none"
        /\ dec.compressed = << >>
        /\ dec.img = NoImage

C7_Witness ==
    /\ dec.st = "rejected"
    /\ buf = [PNG_SIG EXCEPT ![8] = 13] \o RedIhdr \o RedIdat \o EndChunk

\* In the chunks the walk read, an IDAT comes before the first IHDR.
IdatBeforeIhdr(types) ==
    \E i \in 1..Len(types) : types[i] = IDAT /\ \A j \in 1..(i - 1) : types[j] # IHDR
NoIhdr(types) == \A i \in 1..Len(types) : types[i] # IHDR

\* C10: decodePNG rejects every buffer in which an IDAT chunk precedes the
\* first IHDR chunk or that holds no IHDR chunk at all.
C10_IhdrBeforeData ==
    (Settled(dec) /\ (IdatBeforeIhdr(dec.hdr.types) \/ NoIhdr(dec.hdr.types))) =>
        dec.st = "rejected"

\* The raster decodePNG would deliver for d's stream and header if the bit
\* depth were taken as 8.
AsEightBit(d) ==
    [width |-> d.hdr.width, height |-> d.hdr.height,
     data |-> unfilterPNG(Inflate(d.compressed).raw, d.hdr.width, d.hdr.height,
                          d.hdr.colorType, 8)]

\* C11: the decoder treats the bit depth as 8 whatever the IHDR says: bytes per
\* pixel equal the channel count (so the stride is width x channels), and the
\* raster delivered is the one an 8-bit header gives.
C11_BitDepthTreatedAsEight ==
    dec.st = "resolved" =>
        /\ Bpp8(dec.hdr.colorType, dec.hdr.bitDepth) = 8 * Channels(dec.hdr.colorType)
        /\ dec.img = AsEightBit(dec)

-----------------------------------------------------------------------------
(* Specification of the image helpers: one call of scaleImage, fillRect or  *)
(* compositeOver on chosen rasters and arguments.  op records the call and  *)
(* the destination as it was before the call.                               *)

MaxOff == 1        \* offsets run from -MaxOff to MaxW + MaxOff
MaxRect == 3       \* largest rectangle side and largest scaling target

RasterImages ==
    { PatternImage(w, h) : w \in 0..MaxW, h \in 0..MaxH }
    \cup { ImageOf(1, 1, << p >>) : p \in Pixels }

Offsets == (0 - MaxOff)..(MaxW + MaxOff)
FillColors == { White, << 3, 8, 7, 0 >> }

InitRaster ==
    /\ dstImg \in RasterImages
    /\ srcImg = NoImage
    /\ op = [name |-> "none", x |-> 0, y |-> 0, w |-> 0, h |-> 0, before |-> NoImage]
    /\ scaled = NoImage
    /\ CodecIdle
    /\ EmbedIdle
    /\ RestIdle

ScaleImage ==
    /\ op.name = "none"
    /\ \E s \in RasterImages, w \in 0..MaxRect, h \in 0..MaxRect :
          /\ srcImg' = s
          /\ scaled' = scaleImage(s, w, h)
          /\ op' = [name |-> "scaleImage", x |-> 0, y |-> 0, w |-> w, h |-> h,
                    before |-> dstImg]
    /\ UNCHANGED <<dstImg, codecVars, embedVars, restVars>>

FillRect ==
    /\ op.name = "none"
    /\ \E x \in Offsets, y \in Offsets, w \in -1..MaxRect, h \in -1..MaxRect,
          rgba \in FillColors :
          /\ dstImg' = fillRect(dstImg, x, y, w, h, rgba)
          /\ srcImg' = ImageOf(1, 1, << rgba >>)
          /\ op' = [name |-> "fillRect", x |-> x, y |-> y, w |-> w, h |-> h,
                    before |-> dstImg]
    /\ UNCHANGED <<scaled, codecVars, embedVars, restVars>>

CompositeOver ==
    /\ op.name = "none"
    /\ \E s \in RasterImages, ox \in Offsets, oy \in Offsets :
          /\ dstImg' = compositeOver(dstImg, s, ox, oy)
          /\ srcImg' = s
          /\ op' = [name |-> "compositeOver", x |-> ox, y |-> oy,
                    w |-> s.width, h |-> s.height, before |-> dstImg]
    /\ UNCHANGED <<scaled, codecVars, embedVars, restVars>>

NextRaster == ScaleImage \/ FillRect \/ CompositeOver

SpecRaster == InitRaster /\ [][NextRaster]_vars

-----------------------------------------------------------------------------
(* Properties of the image helpers *)

PixelOf(img, px, py) == PixelAt(img.data, (py * img.width + px) * 4)

Inside(img, px, py) == px >= 0 /\ px < img.width /\ py >= 0 /\ py < img.height

\* The source pixels of the recorded compositeOver call that land on the destination.
Landing ==
    { xy \in (0..(srcImg.width - 1)) \X (0..(srcImg.height - 1)) :
        Inside(op.before, op.x + xy[1], op.y + xy[2]) }

SrcPx(xy) == PixelOf(srcImg, xy[1], xy[2])
OldPx(xy) == PixelOf(op.before, op.x + xy[1], op.y + xy[2])
NewPx(xy) == PixelOf(dstImg, op.x + xy[1], op.y + xy[2])

\* C2 as stated: compositing a source pixel of alpha 0 leaves the destination
\* pixel unchanged in all four channels, whatever the destination pixel is
\* (its alpha may be 0).
C2_NoOpAnyDestination ==
    op.name = "compositeOver" =>
        \A xy \in Landing : SrcPx(xy)[4] = 0 => NewPx(xy) = OldPx(xy)

\* C2 amended: compositing a source pixel of alpha 0 leaves a destination pixel
\* of alpha > 0 unchanged in all four channels; a destination pixel of alpha 0
\* becomes transparent black (0,0,0,0): its alpha is kept, its colour is not.
C2_NoOpVisibleDestination ==
    op.name = "compositeOver" =>
        \A xy \in Landing :
            SrcPx(xy)[4] = 0 =>
                NewPx(xy) = IF OldPx(xy)[4] > 0 THEN OldPx(xy) ELSE << 0, 0, 0, 0 >>

C2_Witness ==
    /\ op.name = "compositeOver"
    /\ \E xy \in Landing :
          /\ SrcPx(xy)[4] = 0
          /\ SrcPx(xy)[1] = 255
          /\ OldPx(xy) = << 10, 200, 77, 128 >>
          /\ NewPx(xy) = OldPx(xy)

\* C3: compositing a source pixel of alpha 255 sets the destination pixel to
\* the source's R, G, B with alpha 255, whatever the destination pixel was.
C3_OpaqueSourceReplaces ==
    op.name = "compositeOver" =>
        \A xy \in Landing :
            SrcPx(xy)[4] = 255 =>
                NewPx(xy) = << SrcPx(xy)[1], SrcPx(xy)[2], SrcPx(xy)[3], 255 >>

C3_Witness ==
    /\ op.name = "compositeOver"
    /\ \E xy \in Landing :
          /\ SrcPx(xy) = << 255, 0, 77, 255 >>
          /\ OldPx(xy) = << 10, 200, 77, 128 >>
          /\ NewPx(xy) = << 255, 0, 77, 255 >>

\* C4: scaleImage(src, src.width, src.height) returns src's width, height and
\* pixel bytes.
C4_ResampleIdentity ==
    (op.name = "scaleImage" /\ op.w = srcImg.width /\ op.h = srcImg.height) =>
        scaled = srcImg

C4_Witness ==
    /\ op.name = "scaleImage"
    /\ srcImg = PatternImage(MaxW, MaxH)
    /\ scaled = srcImg

\* The pixels of the destination outside the rectangle (x, y, w, h).
Outside(img, x, y, w, h) ==
    { p \in (0..(img.width - 1)) \X (0..(img.height - 1)) :
        ~(p[1] >= x /\ p[1] < x + w /\ p[2] >= y /\ p[2] < y + h) }

\* C5: fillRect and compositeOver, at any offset and size, keep the
\* destination's dimensions and buffer length and change no destination pixel
\* outside the target rectangle (no wrap-around onto another row).
C5_ClippedWrites ==
    op.name \in {"fillRect", "compositeOver"} =>
        /\ dstImg.width = op.before.width
        /\ dstImg.height = op.before.height
        /\ Len(dstImg.data) = Len(op.before.data)
        /\ \A p \in Outside(op.before, op.x, op.y, op.w, op.h) :
              PixelOf(dstImg, p[1], p[2]) = PixelOf(op.before, p[1], p[2])

\* A rectangle that sticks out on the left and on the right, and did write.
C5_Witness ==
    /\ op.name = "fillRect"
    /\ op.x < 0
    /\ op.x + op.w > op.before.width
    /\ op.before.height > 1
    /\ op.y = 0
    /\ op.h = 1
    /\ dstImg # op.before

-----------------------------------------------------------------------------
(* Specification of embedLogo: one call, from the loading of the logo to    *)
(* the settling of the promise, and of the generateQRCode call (format png, *)
(* with a logo) that awaits it.  Each action is the code that runs between  *)
(* two suspension points.  qrDec.img keeps the base image as decoded;       *)
(* qrImage is the raster that fillRect and compositeOver write, scaled the  *)
(* raster scaleImage returned (scaledLogo).                                 *)

MaxBase == 5       \* side of the largest base image
MaxMargin == 2     \* largest margin

SizePercents == { 1, 20, 40 }
Margins == 0..MaxMargin

BadZlibPng == PNG_SIG \o IhdrOf(2, 2, 8, 6) \o makeChunk(IDAT, << 1, 2, 3 >>) \o EndChunk

\* Images whose decompressed stream ends early: 3 of the 12 bytes of a 3x3
\* grayscale image, 7 of the 18 bytes of a 2x2 RGBA image.
ShortQrPng == PngFile(3, 3, 8, 0, << 0, 0, 255 >>)
ShortLogoPng == PngFile(2, 2, 8, 6, << 0, 9, 8, 7, 200, 1, 2 >>)

QrBuffers ==
    { PngOf(ModuleImage(MaxBase, MaxBase)),
      ShortQrPng,
      PngOf(PatternImage(MaxBase + 1, MaxBase - 1)),
      PngFile(3, 3, 8, 0, << 0, 0, 255, 0, 0, 255, 0, 255, 0, 0, 255, 0 >>),
      NotAPng,
      BadZlibPng }

LogoBuffers ==
    { PngOf(ImageOf(2, 2, << Red, Red, Red, Red >>)),
      ShortLogoPng,
      PngOf(ImageOf(1, 1, << << 10, 200, 77, 128 >> >>)),
      PngOf(PatternImage(3, 1)),
      PngOf(PatternImage(1, 2)),
      NotAPng,
      PNG_SIG,
      BadZlibPng }

\* What loadImage finds at the logo's source.
Logos == { [found |-> FALSE, bytes |-> << >>] } \cup { [found |-> TRUE, bytes |-> b] : b \in LogoBuffers }

Init ==
    /\ params \in [qrBuffer : QrBuffers, logo : Logos,
                    sizePercent : SizePercents, margin : Margins]
    /\ pc = "load"
    /\ qrDec = DecIdle
    /\ logoDec = DecIdle
    /\ qrImage = NoImage
    /\ box = NoBox
    /\ outEnc = EncIdle
    /\ outcome = NoOutcome
    /\ gen = NoOutcome
    /\ CodecIdle
    /\ RasterIdle
    /\ RestIdle

\* loadImage settles; on success embedLogo calls decodePNG(qrBuffer).
LoadLogo ==
    /\ pc = "load"
    /\ IF params.logo.found
       THEN /\ qrDec' = DecodeStart(params.qrBuffer)
            /\ pc' = "decodeQr"
            /\ UNCHANGED outcome
       ELSE /\ outcome' = Rejected("LogoError", MsgNotFound)
            /\ pc' = "done"
            /\ UNCHANGED qrDec
    /\ UNCHANGED <<params, logoDec, qrImage, box, outEnc, gen, codecVars, rasterVars, restVars>>

\* The decompressor of the base image settles.
InflateQr ==
    /\ pc = "decodeQr"
    /\ qrDec.st = "inflating"
    /\ qrDec' = DecodeSettle(qrDec)
    /\ UNCHANGED <<params, pc, logoDec, qrImage, box, outEnc, outcome, gen,
                   codecVars, rasterVars, restVars>>

\* QrDecoded with both decodes in one try block: every failure blames the logo.
QrDecodedOneCatch ==
    /\ pc = "decodeQr"
    /\ Settled(qrDec)
    /\ IF qrDec.st = "rejected"
       THEN /\ outcome' = Rejected("LogoError", MsgLogo)
            /\ pc' = "done"
            /\ UNCHANGED <<qrImage, logoDec>>
       ELSE /\ qrImage' = qrDec.img
            /\ logoDec' = DecodeStart(params.logo.bytes)
            /\ pc' = "decodeLogo"
            /\ UNCHANGED outcome
    /\ UNCHANGED <<params, qrDec, box, outEnc, gen, codecVars, rasterVars, restVars>>

\* `await decodePNG(qrBuffer)` returns or throws; on success embedLogo calls
\* decodePNG(logoBytes).
QrDecoded ==
    /\ pc = "decodeQr"
    /\ Settled(qrDec)
    /\ IF qrDec.st = "rejected"
       THEN /\ outcome' = Rejected("LogoError", MsgQr)
            /\ pc' = "done"
            /\ UNCHANGED <<qrImage, logoDec>>
       ELSE /\ qrImage' = qrDec.img
            /\ logoDec' = DecodeStart(params.logo.bytes)
            /\ pc' = "decodeLogo"
            /\ UNCHANGED outcome
    /\ UNCHANGED <<params, qrDec, box, outEnc, gen, codecVars, rasterVars, restVars>>

\* The decompressor of the logo settles.
InflateLogo ==
    /\ pc = "decodeLogo"
    /\ logoDec.st = "inflating"
    /\ logoDec' = DecodeSettle(logoDec)
    /\ UNCHANGED <<params, pc, qrDec, qrImage, box, outEnc, outcome, gen,
                   codecVars, rasterVars, restVars>>

\* LogoDecoded throwing the base image's message for the logo as well.
LogoDecodedQrMessage ==
    /\ pc = "decodeLogo"
    /\ Settled(logoDec)
    /\ IF logoDec.st = "rejected"
       THEN /\ outcome' = Rejected("LogoError", MsgQr)
            /\ pc' = "done"
            /\ UNCHANGED <<qrImage, logoDec, box, outEnc, scaled>>
       ELSE LET l == Layout(qrImage.width, qrImage.height,
                            logoDec.img.width, logoDec.img.height,
                            params.sizePercent, params.margin)
                after == ComposeRasters(qrImage, logoDec.img, l, params.margin)
            IN  /\ box' = l
                /\ qrImage' = after.qrImage
                /\ logoDec' = [logoDec EXCEPT !.img = after.logoImage]
                /\ scaled' = after.scaledLogo
                /\ outEnc' = EncodeStart(after.qrImage)
                /\ pc' = "encode"
                /\ UNCHANGED outcome
    /\ UNCHANGED <<params, qrDec, gen, codecVars, dstImg, srcImg, op, restVars>>

\* `await decodePNG(logoBytes)` returns or throws; on success steps 3 to 5 run
\* and encodePNG(qrImage) is called.
LogoDecoded ==
    /\ pc = "decodeLogo"
    /\ Settled(logoDec)
    /\ IF logoDec.st = "rejected"
       THEN /\ outcome' = Rejected("LogoError", MsgLogo)
            /\ pc' = "done"
            /\ UNCHANGED <<qrImage, logoDec, box, outEnc, scaled>>
       ELSE LET l == Layout(qrImage.width, qrImage.height,
                            logoDec.img.width, logoDec.img.height,
                            params.sizePercent, params.margin)
                after == ComposeRasters(qrImage, logoDec.img, l, params.margin)
            IN  /\ box' = l
                /\ qrImage' = after.qrImage
                /\ logoDec' = [logoDec EXCEPT !.img = after.logoImage]
                /\ scaled' = after.scaledLogo
                /\ outEnc' = EncodeStart(after.qrImage)
                /\ pc' = "encode"
                /\ UNCHANGED outcome
    /\ UNCHANGED <<params, qrDec, gen, codecVars, dstImg, srcImg, op, restVars>>

\* The compressor ends: encodePNG resolves.
DeflateOut ==
    /\ pc = "encode"
    /\ outEnc.st = "deflating"
    /\ outEnc' = EncodeEnd(outEnc)
    /\ UNCHANGED <<params, pc, qrDec, logoDec, qrImage, box, outcome, gen,
                   codecVars, rasterVars, restVars>>

\* embedLogo returns the encoded bytes.
Return ==
    /\ pc = "encode"
    /\ outEnc.st = "resolved"
    /\ outcome' = Resolved(outEnc.out)
    /\ pc' = "done"
    /\ UNCHANGED <<params, qrDec, logoDec, qrImage, box, outEnc, gen,
                   codecVars, rasterVars, restVars>>

\* generateQRCode's `data = await embedLogo(...)`: the result is returned, an
\* error propagates unchanged.
GenerateSettle ==
    /\ pc = "done"
    /\ gen.kind = "pending"
    /\ gen' = outcome
    /\ UNCHANGED <<params, pc, qrDec, logoDec, qrImage, box, outEnc, outcome,
                   codecVars, rasterVars, restVars>>

Next ==
    \/ LoadLogo
    \/ InflateQr
    \/ QrDecoded
    \/ InflateLogo
    \/ LogoDecoded
    \/ DeflateOut
    \/ Return
    \/ GenerateSettle

Spec == Init /\ [][Next]_vars

-----------------------------------------------------------------------------
(* Properties of embedLogo.                                                 *)

\* What a caller decodes from the bytes embedLogo returned.
EmbedOutput == DecodeSettle(DecodeStart(outcome.data))

\* C6: with a decodable base and a decodable logo, embedLogo returns an image
\* of the base's width and height in which every pixel outside the centred box
\* (targetWidth + 2*margin by targetHeight + 2*margin, at offset
\* round((base dimension - box dimension) / 2)) equals the base image's pixel.
C6_FrameOutsideBox ==
    outcome.kind = "resolved" =>
        LET base == qrDec.img
            out == EmbedOutput.img
            boxW == box.targetWidth + 2 * params.margin
            boxH == box.targetHeight + 2 * params.margin
            boxX == RoundDiv(base.width - boxW, 2)
            boxY == RoundDiv(base.height - boxH, 2)
        IN  /\ EmbedOutput.st = "resolved"
            /\ out.width = base.width
            /\ out.height = base.height
            /\ \A p \in Outside(base, boxX, boxY, boxW, boxH) :
                  PixelOf(out, p[1], p[2]) = PixelOf(base, p[1], p[2])

\* A logo that is not square was drawn with a margin, and pixels remain outside
\* the box.
C6_Witness ==
    /\ outcome.kind = "resolved"
    /\ params.margin >= 1
    /\ logoDec.img.width # logoDec.img.height
    /\ box.targetWidth >= 1
    /\ box.targetHeight >= 1
    /\ qrImage # qrDec.img
    /\ Outside(qrDec.img, box.offsetX, box.offsetY, box.totalWidth, box.totalHeight) # {}

\* The pixels of img inside the rectangle (x, y, w, h).
Within(img, x, y, w, h) ==
    { p \in (0..(img.width - 1)) \X (0..(img.height - 1)) :
        p[1] >= x /\ p[1] < x + w /\ p[2] >= y /\ p[2] < y + h }

\* The box pixels that the resampled logo does not cover.
MarginRing(img) ==
    Within(img, box.offsetX, box.offsetY, box.totalWidth, box.totalHeight)
        \ Within(img, box.offsetX + params.margin, box.offsetY + params.margin,
                  box.targetWidth, box.targetHeight)

\* C28: after a successful embedLogo every output pixel inside the centred box,
\* clipped to the image, has alpha 255 whatever the alpha of the base and of the
\* logo, and every box pixel of the margin ring that the resampled logo does
\* not cover is opaque white.
C28_BoxIsOpaque ==
    outcome.kind = "resolved" =>
        LET out == EmbedOutput.img
        IN  /\ EmbedOutput.st = "resolved"
            /\ \A p \in Within(out, box.offsetX, box.offsetY, box.totalWidth, box.totalHeight) :
                  PixelOf(out, p[1], p[2])[4] = 255
            /\ \A p \in MarginRing(out) : PixelOf(out, p[1], p[2]) = White

\* A translucent logo was drawn with a margin over a box in which the base
\* image had pixels that were not opaque.
C28_Witness ==
    /\ outcome.kind = "resolved"
    /\ params.margin >= 1
    /\ MarginRing(qrDec.img) # {}
    /\ \E p \in MarginRing(qrDec.img) : PixelOf(qrDec.img, p[1], p[2])[4] < 255
    /\ \E p \in Within(qrDec.img, box.offsetX + params.margin, box.offsetY + params.margin,
                         box.targetWidth, box.targetHeight) :
          /\ PixelOf(qrDec.img, p[1], p[2])[4] < 255
          /\ PixelOf(EmbedOutput.img, p[1], p[2]) # White
    /\ \E x \in 0..(logoDec.img.width - 1), y \in 0..(logoDec.img.height - 1) :
          PixelOf(logoDec.img, x, y)[4] \in 1..254

\* C8: when the base image decodes and the logo does not, embedLogo, and
\* generateQRCode awaiting it, reject with a LogoError whose message names the
\* logo and not the base image, and no bytes are produced.
C8_LogoFailureNamesLogo ==
    (pc = "done" /\ qrDec.st = "resolved" /\ logoDec.st = "rejected") =>
        /\ outcome.kind = "rejected"
        /\ outcome.error = "LogoError"
        /\ outcome.message = MsgLogo
        /\ outcome.message # MsgQr
        /\ outcome.data = << >>
        /\ outEnc = EncIdle
        /\ gen.kind # "pending" => gen = outcome

\* generateQRCode rejected because the logo's bytes are not a PNG.
C8_Witness ==
    /\ pc = "done"
    /\ qrDec.st = "resolved"
    /\ logoDec.st = "rejected"
    /\ params.logo.bytes = NotAPng
    /\ gen.kind = "rejected"

\* C9: when the base image does not decode, embedLogo rejects with a LogoError
\* naming the base image whatever the loaded logo bytes are, without decoding
\* the logo; the caller tells the two failures apart: the base image's message
\* is raised exactly when the base image failed to decode.
C9_BaseFailureNamesBase ==
    (pc = "done" /\ params.logo.found) =>
        /\ qrDec.st = "rejected" <=> outcome = Rejected("LogoError", MsgQr)
        /\ qrDec.st = "rejected" => logoDec = DecIdle
        /\ logoDec.st = "rejected" => outcome # Rejected("LogoError", MsgQr)

\* Neither the base image nor the logo is a PNG, and the call has settled.
C9_Witness ==
    /\ pc = "done"
    /\ qrDec.st = "rejected"
    /\ params.logo.found
    /\ params.logo.bytes = NotAPng
    /\ outcome.kind = "rejected"

-----------------------------------------------------------------------------
(* Specification of the pure functions: one unfilterPNG call on a chosen    *)
(* decompressed stream and header, or one crc32 call on a chosen buffer.    *)

MaxRows == 2       \* scanlines of the patterned streams handed to unfilterPNG

\* The byte values of the streams handed to unfilterPNG.
ByteVals == { 0, 1, 2, 3, 128, 255 }

\* Every scanline of n bytes: any filter type 0..4 and any bytes of ByteVals.
Scanlines(n) ==
    { << f >> \o [i \in 1..n |-> g[i]] : f \in 0..4, g \in [1..n -> ByteVals] }

\* Scanlines of n bytes filled from a few patterns, under every filter type.
RowPatterns(n) ==
    { [i \in 1..n |-> (m[1] * i + m[2]) % 256] : m \in { <<0, 0>>, <<37, 200>>, <<255, 2>> } }
RECURSIVE PatternStreams(_, _)
PatternStreams(n, height) ==
    IF height = 0 THEN { << >> }
    ELSE { << f >> \o row \o rest :
             f \in 0..4, row \in RowPatterns(n), rest \in PatternStreams(n, height - 1) }

UnfilterCall(raw, width, height, colorType, bitDepth) ==
    [raw |-> raw, width |-> width, height |-> height, colorType |-> colorType,
     bitDepth |-> bitDepth, done |-> FALSE, output |-> << >>]

\* The headers of the calls: width, height, colorType, bitDepth, bytes per scanline.
Gray2 == << 2, 2, 0, 8, 2 >>
PatternHeaders ==
    { << 2, MaxRows, 4, 8, 4 >>, << 2, MaxRows, 2, 8, 6 >>, << 2, MaxRows, 6, 8, 8 >>,
      << 3, MaxRows, 0, 8, 3 >>, << 2, MaxRows, 0, 16, 4 >> }

\* "123456789"
CheckString == << 49, 50, 51, 52, 53, 54, 55, 56, 57 >>

\* The buffers handed to crc32: every slice of the check string, every single byte.
CrcInputs ==
    { SubSeq(CheckString, i, j) : i \in 1..10, j \in 0..9 }
    \cup { << n >> : n \in 0..255 }
    \cup { IHDR, IDAT, IEND }

InitPure ==
    /\ \/ /\ \E r \in Scanlines(2), q \in Scanlines(2) :
                unf = UnfilterCall(r \o q, Gray2[1], Gray2[2], Gray2[3], Gray2[4])
          /\ crcCall = NoCrc
       \/ /\ \E h \in PatternHeaders : \E raw \in PatternStreams(h[5], h[2]) :
                unf = UnfilterCall(raw, h[1], h[2], h[3], h[4])
          /\ crcCall = NoCrc
       \/ unf = NoUnfilter /\ crcCall \in { [NoCrc EXCEPT !.input = b] : b \in CrcInputs }
    /\ TwoIdle
    /\ StreamIdle
    /\ HookIdle
    /\ CodecIdle
    /\ RasterIdle
    /\ EmbedIdle
    /\ ApiIdle

\* unfilterPNG(raw, width, height, colorType, bitDepth)
Unfilter ==
    /\ unf.height > 0
    /\ ~unf.done
    /\ unf' = [unf EXCEPT !.done = TRUE,
                          !.output = unfilterPNG(unf.raw, unf.width, unf.height,
                                                 unf.colorType, unf.bitDepth)]
    /\ UNCHANGED <<crcCall, codecVars, rasterVars, embedVars, apiVars, twoVars, streamVars, hookVars>>

\* crc32(buf)
Crc32 ==
    /\ unf = NoUnfilter
    /\ ~crcCall.done
    /\ crcCall' = [crcCall EXCEPT !.done = TRUE, !.result = crc32(crcCall.input)]
    /\ UNCHANGED <<unf, codecVars, rasterVars, embedVars, apiVars, twoVars, streamVars, hookVars>>

NextPure == Unfilter \/ Crc32

SpecPure == InitPure /\ [][NextPure]_vars

-----------------------------------------------------------------------------
(* Properties of the pure functions *)

\* The predictor as the PNG filter is stated: of left, above and upper-left,
\* the value nearest to left + above - upperLeft; on a tie left, then above.
NearestOf(left, above, upperLeft) ==
    LET p == left + above - upperLeft
        dist(v) == Abs(p - v)
        least == Min(dist(left), Min(dist(above), dist(upperLeft)))
    IN  IF dist(left) = least THEN left
        ELSE IF dist(above) = least THEN above
        ELSE upperLeft

\* Byte i of scanline y of u's stream, reconstructed as stated, with bpp whole
\* bytes per pixel on scanlines of n bytes.
RECURSIVE Reconstructed(_, _, _, _, _)
Reconstructed(u, n, bpp, y, i) ==
    IF y < 0 \/ i < 0 THEN 0
    ELSE LET f == u.raw[y * (n + 1) + 1]
             x == u.raw[y * (n + 1) + 2 + i]
             left == Reconstructed(u, n, bpp, y, i - bpp)
             above == Reconstructed(u, n, bpp, y - 1, i)
             upperLeft == Reconstructed(u, n, bpp, y - 1, i - bpp)
         IN  IF f = 0 THEN x
             ELSE IF f = 1 THEN (x + left) % 256
             ELSE IF f = 2 THEN (x + above) % 256
             ELSE IF f = 3 THEN (x + ((left + above) \div 2)) % 256
             ELSE (x + NearestOf(left, above, upperLeft)) % 256

\* The output byte that shows sample c of pixel x: unfilterPNG writes grey to
\* R, G and B, and the alpha sample of grey+alpha to A.
ShownAt(channels, width, y, x, c) ==
    (y * width + x) * 4 + (IF channels = 2 /\ c = 1 THEN 3 ELSE c) + 1

\* C12: for every scanline and every filter type 0..4, each byte unfilterPNG
\* delivers is the filtered byte plus, modulo 256, the prediction from the
\* reconstructed left (bpp bytes back), above and upper-left bytes, 0 when out
\* of bounds: None nothing, Sub left, Up above, Average floor((left+above)/2),
\* Paeth the nearest of the three with ties to left, then above.
C12_FiltersReconstruct ==
    (unf.done /\ (Channels(unf.colorType) * unf.bitDepth) % 8 = 0) =>
        LET channels == Channels(unf.colorType)
            bpp == (channels * unf.bitDepth) \div 8
            n == unf.width * bpp
        IN  \A y \in 0..(unf.height - 1), x \in 0..(unf.width - 1), c \in 0..(channels - 1) :
                unf.output[ShownAt(channels, unf.width, y, x, c)]
                    = Reconstructed(unf, n, bpp, y, x * channels + c)

\* A Paeth scanline where left (3) and upper-left (1)
\* are equally near the estimate: left wins.
C12_Witness ==
    /\ unf.done
    /\ unf.raw = << 0, 1, 0, 4, 2, 0 >>
    /\ unf.output = << 1, 1, 1, 255, 0, 0, 0, 255, 3, 3, 3, 255, 3, 3, 3, 255 >>

\* The CRC-32 of b computed bit by bit: reflected polynomial 0xEDB88320, initial
\* value and final complement 0xFFFFFFFF.
BitwiseCrc(b) ==
    Xor32(Loop(LAMBDA crc, i : CrcEntry(Xor32(crc, << 0, b[i] >>), 8), 1, Len(b),
               << 65535, 65535 >>),
          << 65535, 65535 >>)

\* C14: crc32 of the ASCII bytes "123456789" is 0xCBF43926, an unsigned 32-bit
\* value; the table it uses holds, for each byte, eight steps of the reflected
\* polynomial 0xEDB88320, so that crc32 agrees with the bit-by-bit CRC-32.
C14_CheckValue ==
    crcCall.done =>
        /\ crcCall.result[1] \in 0..65535
        /\ crcCall.result[2] \in 0..65535
        /\ crcCall.result = BitwiseCrc(crcCall.input)
        /\ crcCall.input = CheckString => crcCall.result = << 52212, 14630 >>
        /\ DOMAIN crcTable = 0..255
        /\ crcTable[1] = << 30471, 12438 >>
        /\ crcTable[128] = << 60856, 33568 >>
        /\ crcTable[255] = << 11522, 61325 >>

\* crc32 has run on "123456789".
C14_Witness ==
    /\ crcCall.done
    /\ crcCall.input = CheckString
    /\ Bytes32(crcCall.result) = << 203, 244, 57, 38 >>

-----------------------------------------------------------------------------
(* Properties of the encoder's output *)

\* The chunk a reader finds at byte offset off of b.
ChunkAt(b, off) ==
    LET length == ReadU32BE(b, off)
    IN  [length |-> length,
         type |-> Subarray(b, off + 4, off + 8),
         data |-> Subarray(b, off + 8, off + 8 + length),
         crc |-> Subarray(b, off + 8 + length, off + 12 + length)]

\* The chunk's trailer is the big-endian CRC-32 of its type followed by its data.
CrcHolds(c) == c.crc = Bytes32(BitwiseCrc(c.type \o c.data))

\* C13: encodePNG resolves with exactly the signature, an IHDR chunk of 13
\* bytes (width, height, 8, 6, 0, 0, 0), one IDAT chunk holding the compressed
\* scanlines and an empty IEND chunk, in that order and nothing else; each
\* length field is the data length and each trailer the CRC-32 of type and
\* data, big-endian.
C13_EncodedLayout ==
    enc.st = "resolved" =>
        LET out == enc.out
            ihdr == ChunkAt(out, 8)
            idat == ChunkAt(out, 33)
            iend == ChunkAt(out, 45 + idat.length)
        IN  /\ Subarray(out, 0, 8) = << 137, 80, 78, 71, 13, 10, 26, 10 >>
            /\ ihdr.length = 13
            /\ ihdr.type = << 73, 72, 68, 82 >>
            /\ ihdr.data = << 0, 0, 0, image.width, 0, 0, 0, image.height, 8, 6, 0, 0, 0 >>
            /\ CrcHolds(ihdr)
            /\ idat.length = Len(Deflate(enc.rawBuf))
            /\ idat.type = << 73, 68, 65, 84 >>
            /\ idat.data = Deflate(enc.rawBuf)
            /\ CrcHolds(idat)
            /\ iend.length = 0
            /\ iend.type = << 73, 69, 78, 68 >>
            /\ iend.data = << >>
            /\ CrcHolds(iend)
            /\ Len(out) = 57 + idat.length

\* encodePNG has resolved for a raster of the largest size.
C13_Witness ==
    /\ enc.st = "resolved"
    /\ image.width = MaxW
    /\ image.height = MaxH
    /\ Len(enc.out) > 57

-----------------------------------------------------------------------------
(* Frame of embedLogo *)

\* C15: no step of embedLogo, whether the call resolves or rejects, changes a
\* byte of qrBuffer or of the loaded logo bytes, and the decoded logo raster
\* stays as decoded through scaleImage and compositeOver: of the rasters only
\* the decoded base image is written.
C15_InputsNotMutated ==
    [][/\ params' = params
       /\ logoDec.st = "resolved" => logoDec'.img = logoDec.img
       /\ qrDec.st = "resolved" => qrDec' = qrDec]_vars

\* The call resolved after scaling the logo to another size and writing the base
\* image; the logo raster is what decoding the logo bytes gives.
C15_Witness ==
    /\ pc = "done"
    /\ outcome.kind = "resolved"
    /\ qrImage # qrDec.img
    /\ box.targetWidth # logoDec.img.width
    /\ box.targetWidth >= 1
    /\ box.targetHeight >= 1
    /\ logoDec.img = DecodeSettle(DecodeStart(params.logo.bytes)).img

-----------------------------------------------------------------------------
(* Specification of two concurrent embedLogo calls.  A call is a record of  *)
(* its locals; Step runs one call from one suspension point to the next.    *)
(* The calls share the module-level crcTable, held in `table`.              *)

CallInit(p) ==
    [params |-> p, pc |-> "load", qrDec |-> DecIdle, logoDec |-> DecIdle,
     qrImage |-> NoImage, box |-> NoBox, outEnc |-> EncIdle, outcome |-> NoOutcome,
     overlapped |-> FALSE]

\* The continuation of call c that runs next, reading the table t.
Step(c, t) ==
    IF c.pc = "load"
    THEN IF c.params.logo.found
         THEN [c EXCEPT !.qrDec = DecodeStart(c.params.qrBuffer), !.pc = "decodeQr"]
         ELSE [c EXCEPT !.outcome = Rejected("LogoError", MsgNotFound), !.pc = "done"]
    ELSE IF c.pc = "decodeQr"
    THEN IF c.qrDec.st = "inflating" THEN [c EXCEPT !.qrDec = DecodeSettle(@)]
         ELSE IF c.qrDec.st = "rejected"
         THEN [c EXCEPT !.outcome = Rejected("LogoError", MsgQr), !.pc = "done"]
         ELSE [c EXCEPT !.qrImage = c.qrDec.img,
                        !.logoDec = DecodeStart(c.params.logo.bytes),
                        !.pc = "decodeLogo"]
    ELSE IF c.pc = "decodeLogo"
    THEN IF c.logoDec.st = "inflating" THEN [c EXCEPT !.logoDec = DecodeSettle(@)]
         ELSE IF c.logoDec.st = "rejected"
         THEN [c EXCEPT !.outcome = Rejected("LogoError", MsgLogo), !.pc = "done"]
         ELSE LET l == Layout(c.qrImage.width, c.qrImage.height,
                              c.logoDec.img.width, c.logoDec.img.height,
                              c.params.sizePercent, c.params.margin)
                  after == ComposeRasters(c.qrImage, c.logoDec.img, l, c.params.margin)
              IN  [c EXCEPT !.box = l,
                            !.qrImage = after.qrImage,
                            !.logoDec = [c.logoDec EXCEPT !.img = after.logoImage],
                            !.outEnc = EncodeStart(after.qrImage),
                            !.pc = "encode"]
    ELSE IF c.pc = "encode"
    THEN IF c.outEnc.st = "deflating"
         THEN [c EXCEPT !.outEnc =
                  [c.outEnc EXCEPT !.st = "resolved",
                                   !.out = AssemblePNGOn(t, c.outEnc.width, c.outEnc.height,
                                                         Deflate(c.outEnc.rawBuf))]]
         ELSE [c EXCEPT !.outcome = Resolved(c.outEnc.out), !.pc = "done"]
    ELSE c

\* crc32 writing 0 over the table entry of the first byte it reads.
TableAfterCrcScratch(t, b) == IF b = << >> THEN t ELSE [t EXCEPT ![b[1]] = << 0, 0 >>]

\* The table after a crc32 call on b: crc32 only reads it.
TableAfterCrc(t, b) == t

\* The table after the continuation of c that runs next: only makeChunk, in the
\* compressor's 'end' handler, calls crc32.
TableAfterStep(c, t) ==
    IF c.pc = "encode" /\ c.outEnc.st = "deflating"
    THEN TableAfterCrc(TableAfterCrc(TableAfterCrc(t, IHDR), IDAT), IEND)
    ELSE t

\* The inputs of a call: two that embed, an undecodable logo, an undecodable
\* base image, a logo that is not found.
CallParams ==
    { [qrBuffer |-> PngOf(ModuleImage(MaxBase - 1, MaxBase - 1)),
       logo |-> [found |-> TRUE, bytes |-> PngOf(ImageOf(2, 2, << Red, Red, Red, Red >>))],
       sizePercent |-> 40, margin |-> 0],
      [qrBuffer |-> PngOf(PatternImage(MaxBase - 2, MaxBase - 2)),
       logo |-> [found |-> TRUE, bytes |-> PngOf(ImageOf(1, 1, << Faint >>))],
       sizePercent |-> 40, margin |-> 1],
      [qrBuffer |-> PngOf(ModuleImage(MaxBase - 1, MaxBase - 1)),
       logo |-> [found |-> TRUE, bytes |-> NotAPng],
       sizePercent |-> 20, margin |-> 0],
      [qrBuffer |-> BadZlibPng,
       logo |-> [found |-> TRUE, bytes |-> PngOf(ImageOf(1, 1, << Faint >>))],
       sizePercent |-> 20, margin |-> 0],
      [qrBuffer |-> PngOf(PatternImage(MaxBase - 2, MaxBase - 2)),
       logo |-> [found |-> FALSE, bytes |-> << >>],
       sizePercent |-> 20, margin |-> 0] }

InitTwo ==
    /\ calls \in [1..2 -> { CallInit(p) : p \in CallParams }]
    /\ table = crcTable
    /\ PureIdle
    /\ StreamIdle
    /\ HookIdle
    /\ CodecIdle
    /\ RasterIdle
    /\ EmbedIdle
    /\ ApiIdle

\* The event loop runs the next continuation of call k.
Resume(k) ==
    /\ calls[k].pc # "done"
    /\ calls' = [calls EXCEPT ![k] =
                   [Step(calls[k], table) EXCEPT
                       !.overlapped = @ \/ \E j \in DOMAIN calls :
                                              j # k /\ calls[j].pc \notin {"load", "done"}]]
    /\ table' = TableAfterStep(calls[k], table)
    /\ UNCHANGED <<codecVars, rasterVars, embedVars, apiVars, pureVars, streamVars, hookVars>>

NextTwo == \E k \in 1..2 : Resume(k)

SpecTwo == InitTwo /\ [][NextTwo]_vars

RECURSIVE RunAlone(_)
RunAlone(c) == IF c.pc = "done" THEN c ELSE RunAlone(Step(c, crcTable))

\* C16: two embedLogo calls on independent inputs, interleaved in any order at
\* their suspension points, each settle as the same call does when run alone;
\* the crcTable they share is never written after module initialisation.
C16_CallsDoNotInterfere ==
    /\ table = crcTable
    /\ \A k \in DOMAIN calls :
          calls[k].pc = "done" =>
              calls[k].outcome = RunAlone(CallInit(calls[k].params)).outcome

\* Both calls resolved, each having run continuations while the other was in
\* flight.
C16_Witness ==
    /\ DOMAIN calls = 1..2
    /\ \A k \in 1..2 :
          /\ calls[k].pc = "done"
          /\ calls[k].outcome.kind = "resolved"
          /\ calls[k].overlapped
    /\ calls[1].params # calls[2].params

-----------------------------------------------------------------------------
(* Specification of one decodePNG call at the level of the decompressor's   *)
(* events.  The decompressor emits the stored bytes in 'data' chunks of any *)
(* size, then 'end' when the stream's checksum holds and 'error' when it    *)
(* does not; a stream without the zlib header gives 'error' and no data.    *)

MaxChunk == 3      \* largest 'data' chunk the decompressor emits

\* A promise: the first resolve or reject settles it, later ones are ignored.
Pending == [state |-> "pending", value |-> NoImage, error |-> ""]
Settle(p, state, value, error) ==
    IF p.state = "pending" THEN [state |-> state, value |-> value, error |-> error] ELSE p

\* decodePNG(b) up to inflate.end(compressed); settles counts the resolve and
\* reject calls made so far, pos the stored bytes emitted so far.
StreamOf(b) ==
    LET d == DecodeStart(b)
    IN  [hdr |-> d.hdr, compressed |-> d.compressed,
         inflate |-> IF d.st = "inflating" THEN "flowing" ELSE "none",
         pos |-> 0, chunks |-> << >>,
         promise |-> IF d.st = "rejected" THEN Settle(Pending, "rejected", NoImage, d.err)
                     ELSE Pending,
         settles |-> IF d.st = "rejected" THEN 1 ELSE 0]

HeaderOk(z) == Len(z) >= 2 /\ SubSeq(z, 1, 2) = ZlibHeader
\* The stored bytes of a stream, and whether its last byte is their checksum.
Stored(z) == SubSeq(z, 3, Len(z) - 1)
ChecksumOk(z) == Len(z) >= 3 /\ z[Len(z)] = SumBytes(Stored(z))

\* inflate.on('data', chunk => chunks.push(chunk))
OnData(s, chunk) == [s EXCEPT !.chunks = Append(@, chunk), !.pos = @ + Len(chunk)]

\* The 'end' handler: unfilter what arrived and resolve.
OnEnd(s) ==
    LET raw == Concat(s.chunks)
        pixels == unfilterPNG(raw, s.hdr.width, s.hdr.height, s.hdr.colorType, s.hdr.bitDepth)
    IN  [s EXCEPT !.inflate = "ended",
                  !.promise = Settle(@, "resolved",
                                     [width |-> s.hdr.width, height |-> s.hdr.height,
                                      data |-> pixels], ""),
                  !.settles = @ + 1]

\* An 'error' handler that delivers the raster of the bytes that did arrive.
OnErrorDeliverPartial(s) ==
    [OnEnd(s) EXCEPT !.inflate = "errored"]

\* inflate.on('error', reject)
OnError(s) ==
    [s EXCEPT !.inflate = "errored",
              !.promise = Settle(@, "rejected", NoImage, "zlib error"),
              !.settles = @ + 1]

StreamBuffers ==
    { PngOf(ImageOf(1, 1, << Red >>)),
      PngOf(PatternImage(2, 1)),
      PngFile(1, 2, 8, 0, << 1, 200, 2, 100 >>),
      PNG_SIG \o IhdrOf(2, 1, 8, 6)
              \o makeChunk(IDAT, ZlibHeader \o RawScanlines(PatternImage(2, 1)) \o << 250 >>)
              \o EndChunk,
      PNG_SIG \o IhdrOf(1, 1, 8, 6)
              \o makeChunk(IDAT, SubSeq(Deflate(RedRaw), 1, Len(Deflate(RedRaw)) - 2))
              \o EndChunk,
      PNG_SIG \o RedIhdr \o makeChunk(IDAT, << 1, 2, 3 >>) \o EndChunk,
      PNG_SIG \o RedIhdr \o EndChunk,
      NotAPng }

InitStream ==
    /\ strm \in { StreamOf(b) : b \in StreamBuffers }
    /\ PureIdle
    /\ TwoIdle
    /\ HookIdle
    /\ CodecIdle
    /\ RasterIdle
    /\ EmbedIdle
    /\ ApiIdle

\* The decompressor emits 'data'.
EmitData ==
    /\ strm.inflate = "flowing"
    /\ HeaderOk(strm.compressed)
    /\ \E n \in 1..MaxChunk :
          /\ strm.pos + n <= Len(Stored(strm.compressed))
          /\ strm' = OnData(strm, SubSeq(Stored(strm.compressed), strm.pos + 1, strm.pos + n))
    /\ UNCHANGED <<codecVars, rasterVars, embedVars, apiVars, pureVars, twoVars, hookVars>>

\* The decompressor emits 'end': every stored byte was emitted and the checksum holds.
EmitEnd ==
    /\ strm.inflate = "flowing"
    /\ HeaderOk(strm.compressed)
    /\ ChecksumOk(strm.compressed)
    /\ strm.pos = Len(Stored(strm.compressed))
    /\ strm' = OnEnd(strm)
    /\ UNCHANGED <<codecVars, rasterVars, embedVars, apiVars, pureVars, twoVars, hookVars>>

\* The decompressor emits 'error': no zlib header, or the checksum fails after
\* the stored bytes were emitted.
EmitError ==
    /\ strm.inflate = "flowing"
    /\ \/ ~HeaderOk(strm.compressed)
       \/ /\ ~ChecksumOk(strm.compressed)
          /\ strm.pos = Len(Stored(strm.compressed))
    /\ strm' = OnError(strm)
    /\ UNCHANGED <<codecVars, rasterVars, embedVars, apiVars, pureVars, twoVars, hookVars>>

NextStream == EmitData \/ EmitEnd \/ EmitError

SpecStream == InitStream /\ [][NextStream]_vars

\* C17: a decodePNG call settles at most once; it resolves only after the
\* decompressor's 'end', with the raster of every emitted chunk in arrival
\* order; once the decompressor signalled 'error' the call is rejected and no
\* raster, partial or complete, is delivered, whatever data was emitted before.
C17_SettlesOnceAllOrNothing ==
    /\ strm.settles <= 1
    /\ strm.promise.state = "pending" <=> strm.settles = 0
    /\ strm.promise.state = "resolved" =>
          /\ strm.inflate = "ended"
          /\ Concat(strm.chunks) = Stored(strm.compressed)
          /\ strm.promise.value =
                [width |-> strm.hdr.width, height |-> strm.hdr.height,
                 data |-> unfilterPNG(Stored(strm.compressed), strm.hdr.width,
                                      strm.hdr.height, strm.hdr.colorType, strm.hdr.bitDepth)]
    /\ strm.promise.state # "resolved" => strm.promise.value = NoImage
    /\ strm.inflate = "errored" => strm.promise.state = "rejected"
    /\ strm.inflate \in {"ended", "errored"} =>
          strm.promise.state = DecodeSettle(
              [DecIdle EXCEPT !.st = "inflating", !.hdr = strm.hdr,
                              !.compressed = strm.compressed]).st

\* The decompressor emitted every stored byte in several chunks and then
\* signalled an error.
C17_Witness ==
    /\ strm.inflate = "errored"
    /\ Len(strm.chunks) >= 2
    /\ strm.pos = 9
    /\ strm.promise.state = "rejected"

-----------------------------------------------------------------------------
(* Specification of the useQRCode hook of one mounted component.  Options   *)
(* are told apart by their optionsKey; qrCode and error are Null or the key *)
(* of the options that produced them.  setState calls                       *)
(* made in one effect or one promise callback are batched into one render;  *)
(* the effect of a render runs before the next render, and a promise        *)
(* callback may run between a render and its effect.                        *)

MaxRuns == 2       \* regenerate calls and changes of options by the parent, in all
Keys == {"a", "b", "bad"}       \* the optionsKey values
Null == "null"

\* generateQRCode rejects options that fail validation.
Rejects(k) == k = "bad"

NoDeps == [key |-> Null, enabled |-> FALSE, tick |-> -1]

\* The component after its first render with options (k, e): the useState
\* initial values, returned as they are, and the first effect to run.
Mounted(k, e) ==
    [st |-> [qrCode |-> Null, loading |-> FALSE, error |-> Null, tick |-> 0, from |-> 0],
     shown |-> [qrCode |-> Null, loading |-> FALSE, error |-> Null, isIdle |-> ~e, from |-> 0],
     optionsRef |-> [key |-> k, enabled |-> e],
     deps |-> [key |-> k, enabled |-> e, tick |-> 0],
     effectDeps |-> NoDeps,
     effectPending |-> TRUE,
     dirty |-> FALSE,
     calls |-> << >>,
     current |-> 0,
     mounted |-> TRUE,
     budget |-> MaxRuns]

\* A render whose dependency list leaves tick out.
RenderHookTickBlind(h, k, e) ==
    LET deps == [key |-> k, enabled |-> e, tick |-> h.st.tick]
    IN  [h EXCEPT !.calls = IF h.st.from # 0 /\ ~h.st.loading
                            THEN [@ EXCEPT ![h.st.from] = [@ EXCEPT !.seen = TRUE]]
                            ELSE @,
                  !.shown = [qrCode |-> h.st.qrCode, loading |-> h.st.loading,
                             error |-> h.st.error, isIdle |-> ~e, from |-> h.st.from],
                  !.optionsRef = [key |-> k, enabled |-> e],
                  !.deps = deps,
                  !.effectPending = (k # h.deps.key \/ e # h.deps.enabled),
                  !.dirty = FALSE]

\* One render with options (k, e): the hook returns its state as it stands; the
\* effect is scheduled when optionsKey, enabled or tick differ from the last
\* render's.  seen records that a render returned the outcome of a call with
\* loading false.
RenderHook(h, k, e) ==
    LET deps == [key |-> k, enabled |-> e, tick |-> h.st.tick]
    IN  [h EXCEPT !.calls = IF h.st.from # 0 /\ ~h.st.loading
                            THEN [@ EXCEPT ![h.st.from] = [@ EXCEPT !.seen = TRUE]]
                            ELSE @, !.shown = [qrCode |-> h.st.qrCode, loading |-> h.st.loading,
                             error |-> h.st.error, isIdle |-> ~e, from |-> h.st.from],
                  !.optionsRef = [key |-> k, enabled |-> e],
                  !.deps = deps,
                  !.effectPending = (deps # h.deps),
                  !.dirty = FALSE]

\* A cleanup that leaves the flag alone.
CleanupNothing(h) == h.calls

\* The cleanup of the previous effect: cancelled = true in its closure.
Cleanup(h) ==
    IF h.current = 0 THEN h.calls
    ELSE [h.calls EXCEPT ![h.current] = [@ EXCEPT !.cancelled = TRUE]]

\* The effect body without setError(null).
EffectHookKeepError(h) ==
    IF ~h.optionsRef.enabled
    THEN LET st == [h.st EXCEPT !.qrCode = Null, !.loading = FALSE, !.error = Null, !.from = 0]
         IN  [h EXCEPT !.st = st,
                       !.calls = Cleanup(h),
                       !.current = 0,
                       !.effectDeps = h.deps,
                       !.effectPending = FALSE,
                       !.dirty = h.dirty \/ st # h.st]
    ELSE LET st == [h.st EXCEPT !.loading = TRUE]
         IN  [h EXCEPT !.st = st,
                       !.calls = Append(Cleanup(h),
                                        [key |-> h.optionsRef.key, cancelled |-> FALSE,
                                         state |-> "pending", stale |-> FALSE, seen |-> FALSE,
                                         byRegenerate |-> h.deps.tick # h.effectDeps.tick
                                                          /\ h.effectDeps # NoDeps]),
                       !.current = Len(h.calls) + 1,
                       !.effectDeps = h.deps,
                       !.effectPending = FALSE,
                       !.dirty = h.dirty \/ st # h.st]

\* The effect body, after the previous effect's cleanup.
EffectHook(h) ==
    IF ~h.optionsRef.enabled
    THEN LET st == [h.st EXCEPT !.qrCode = Null, !.loading = FALSE, !.error = Null, !.from = 0]
         IN  [h EXCEPT !.st = st,
                       !.calls = Cleanup(h),
                       !.current = 0,
                       !.effectDeps = h.deps,
                       !.effectPending = FALSE,
                       !.dirty = h.dirty \/ st # h.st]
    ELSE LET st == [h.st EXCEPT !.loading = TRUE, !.error = Null]
         IN  [h EXCEPT !.st = st,
                       !.calls = Append(Cleanup(h),
                                        [key |-> h.optionsRef.key, cancelled |-> FALSE,
                                         state |-> "pending", stale |-> FALSE, seen |-> FALSE,
                                         byRegenerate |-> h.deps.tick # h.effectDeps.tick
                                                          /\ h.effectDeps # NoDeps]),
                       !.current = Len(h.calls) + 1,
                       !.effectDeps = h.deps,
                       !.effectPending = FALSE,
                       !.dirty = h.dirty \/ st # h.st]

\* The state after the .then or .catch callback of call i, were it not cancelled.
Delivered(h, i) ==
    IF Rejects(h.calls[i].key)
    THEN [h.st EXCEPT !.error = h.calls[i].key, !.qrCode = Null, !.loading = FALSE, !.from = i]
    ELSE [h.st EXCEPT !.qrCode = h.calls[i].key, !.loading = FALSE, !.from = i]

\* The callbacks of call i without the `cancelled` test.
SettleHookUnguarded(h, i) ==
    LET st == Delivered(h, i)
    IN  [h EXCEPT !.st = st,
                  !.calls = [@ EXCEPT ![i] =
                               [@ EXCEPT !.state = IF Rejects(h.calls[i].key)
                                                   THEN "rejected" ELSE "resolved",
                                         !.stale = h.calls[i].cancelled \/ h.effectPending]],
                  !.dirty = h.dirty \/ st # h.st]

\* The promise of call i settles: its .then or .catch callback runs.  stale
\* records that the call was cancelled, or about to be, when it settled.
SettleHook(h, i) ==
    LET st == IF h.calls[i].cancelled THEN h.st ELSE Delivered(h, i)
    IN  [h EXCEPT !.st = st,
                  !.calls = [@ EXCEPT ![i] =
                               [@ EXCEPT !.state = IF Rejects(h.calls[i].key)
                                                   THEN "rejected" ELSE "resolved",
                                         !.stale = h.calls[i].cancelled \/ h.effectPending]],
                  !.dirty = h.dirty \/ st # h.st]

\* The component is removed: the cleanup of its last effect.
UnmountHook(h) ==
    [h EXCEPT !.calls = Cleanup(h), !.current = 0, !.mounted = FALSE]

\* regenerate(): setTick(t => t + 1)
RegenerateHook(h) ==
    [h EXCEPT !.st = [@ EXCEPT !.tick = @ + 1], !.dirty = TRUE, !.budget = @ - 1]

InitHook ==
    /\ hook \in { Mounted(k, e) : k \in Keys, e \in BOOLEAN }
    /\ PureIdle
    /\ TwoIdle
    /\ StreamIdle
    /\ CodecIdle
    /\ RasterIdle
    /\ EmbedIdle
    /\ ApiIdle

\* The parent renders the component with other options.
ParentRender ==
    /\ hook.mounted
    /\ ~hook.effectPending
    /\ hook.budget > 0
    /\ \E k \in Keys, e \in BOOLEAN :
          /\ [key |-> k, enabled |-> e] # hook.optionsRef
          /\ hook' = [RenderHook(hook, k, e) EXCEPT !.budget = @ - 1]
    /\ UNCHANGED <<codecVars, rasterVars, embedVars, apiVars, pureVars, twoVars, streamVars>>

\* The component renders again with the same options (a state update, or the
\* parent rendering).
Rerender ==
    /\ hook.mounted
    /\ ~hook.effectPending
    /\ hook' = RenderHook(hook, hook.optionsRef.key, hook.optionsRef.enabled)
    /\ UNCHANGED <<codecVars, rasterVars, embedVars, apiVars, pureVars, twoVars, streamVars>>

\* React runs the effect scheduled by the last render.
RunEffect ==
    /\ hook.mounted
    /\ hook.effectPending
    /\ hook' = EffectHook(hook)
    /\ UNCHANGED <<codecVars, rasterVars, embedVars, apiVars, pureVars, twoVars, streamVars>>

\* A generateQRCode promise settles.
SettleCall ==
    /\ \E i \in 1..Len(hook.calls) :
          /\ hook.calls[i].state = "pending"
          /\ hook' = SettleHook(hook, i)
    /\ UNCHANGED <<codecVars, rasterVars, embedVars, apiVars, pureVars, twoVars, streamVars>>

\* The user calls regenerate.
Regenerate ==
    /\ hook.mounted
    /\ hook.budget > 0
    /\ hook' = RegenerateHook(hook)
    /\ UNCHANGED <<codecVars, rasterVars, embedVars, apiVars, pureVars, twoVars, streamVars>>

NextHook == ParentRender \/ Rerender \/ RunEffect \/ SettleCall \/ Regenerate

SpecHook == InitHook /\ [][NextHook]_vars

\* React does render after a state update and does run a scheduled effect.
SpecHookLive == SpecHook /\ WF_vars(Rerender) /\ WF_vars(RunEffect)

\* The parent stops rendering the component: the last effect's cleanup runs.
\* (React runs it after the commit; a state update that a callback makes
\* in between goes to a component that is gone and is dropped, as if the
\* cleanup had run at once.)
Unmount ==
    /\ hook.mounted
    /\ ~hook.effectPending
    /\ hook' = UnmountHook(hook)
    /\ UNCHANGED <<codecVars, rasterVars, embedVars, apiVars, pureVars, twoVars, streamVars>>

NextHookUnmount == NextHook \/ Unmount

\* The hook of a component that may be unmounted.
SpecHookUnmount == InitHook /\ [][NextHookUnmount]_vars

-----------------------------------------------------------------------------
(* Properties of the hook.                                                  *)

\* C18: in every render the returned qrCode is null whenever the returned
\* loading is true and whenever the returned error is non-null, also while a
\* regeneration is in flight after an earlier successful generation.
C18_NullWhileLoadingOrError ==
    /\ hook.shown.loading => hook.shown.qrCode = Null
    /\ hook.shown.error # Null => hook.shown.qrCode = Null

\* The effect of the latest render has run and no call it cancelled or left
\* alone can reach the state.
DisabledSettled == ~hook.optionsRef.enabled /\ ~hook.effectPending

\* The hook state of a disabled hook.
IdleState ==
    /\ hook.st.qrCode = Null
    /\ hook.st.loading = FALSE
    /\ hook.st.error = Null

\* C19: while enabled is false no generateQRCode call is started; once the
\* effect has run the hook holds, and at its next render reports, qrCode null,
\* loading false, error null and isIdle true; a call that was in flight when
\* enabled became false leaves that state alone when it settles.
C19_DisabledIsIdle ==
    /\ [](DisabledSettled => IdleState)
    /\ [](DisabledSettled /\ ~hook.dirty =>
              hook.shown = [qrCode |-> Null, loading |-> FALSE, error |-> Null,
                            isIdle |-> TRUE, from |-> 0])
    /\ [](~hook.optionsRef.enabled => hook.shown.isIdle)
    /\ [][~hook.optionsRef.enabled /\ ~hook'.optionsRef.enabled =>
              Len(hook'.calls) = Len(hook.calls)]_vars
    /\ [][DisabledSettled /\ (\E i \in 1..Len(hook.calls) :
                                 /\ Len(hook'.calls) = Len(hook.calls)
                                 /\ hook.calls[i].state = "pending"
                                 /\ hook'.calls[i].state # "pending") =>
              hook'.st = hook.st]_vars

\* A disabled hook whose effect has run, reporting the idle state, after a call
\* that was in flight when it was disabled settled with a result.
C19_Witness ==
    /\ DisabledSettled
    /\ ~hook.dirty
    /\ hook.shown.isIdle
    /\ hook.shown.qrCode = Null
    /\ \E i \in 1..Len(hook.calls) :
          /\ hook.calls[i].state = "resolved"
          /\ hook.calls[i].cancelled
          /\ ~hook.calls[i].seen

CallIds == 1..(MaxRuns + 1)

\* An effect that runs while the hook is enabled starts one call, with the
\* options of the latest render.
StartsCallWithLatestOptions ==
    [][hook.effectPending /\ ~hook'.effectPending /\ hook.optionsRef.enabled =>
          /\ Len(hook'.calls) = Len(hook.calls) + 1
          /\ hook'.calls[Len(hook'.calls)].key = hook.optionsRef.key
          /\ hook'.calls[Len(hook'.calls)].state = "pending"]_vars

\* Every regenerate is followed by a run of the effect for its tick.
RegenerateRunsEffect ==
    \A n \in 1..MaxRuns : (hook.st.tick = n) ~> (hook.effectDeps.tick >= n)

\* Call i was started after regenerate with unchanged options and has settled.
RegeneratedSettled(i) ==
    /\ i <= Len(hook.calls)
    /\ hook.calls[i].byRegenerate
    /\ hook.calls[i].state # "pending"

\* A render has returned the outcome of call i with loading false.
Seen(i) == i <= Len(hook.calls) /\ hook.calls[i].seen

\* Call i was cancelled, or a further effect was already scheduled, when it settled.
Superseded(i) == i <= Len(hook.calls) /\ hook.calls[i].stale

\* C20 as stated: regenerate on an enabled hook starts a new call with the
\* options of the latest render, and whenever that call settles a later render
\* returns its result or its error with loading false.
C20_RegenerateResultShown ==
    /\ StartsCallWithLatestOptions
    /\ RegenerateRunsEffect
    /\ \A i \in CallIds : RegeneratedSettled(i) ~> Seen(i)

\* C20, amended: the same, for a call that settles while it is still the call
\* of the latest effect and no further effect is scheduled; a call that a
\* later effect run has cancelled is discarded.
C20_RegenerateResultShownUnlessSuperseded ==
    /\ StartsCallWithLatestOptions
    /\ RegenerateRunsEffect
    /\ \A i \in CallIds :
          (RegeneratedSettled(i) /\ ~Superseded(i)) ~> Seen(i)

\* A render returns, with loading false, the result of a call that regenerate
\* started with the options of the first render.
C20_Witness ==
    \E i \in 1..Len(hook.calls) :
        /\ hook.calls[i].byRegenerate
        /\ hook.calls[i].seen
        /\ hook.calls[i].key = hook.calls[1].key
        /\ hook.shown.from = i
        /\ hook.shown.qrCode = hook.calls[i].key
        /\ ~hook.shown.loading

-----------------------------------------------------------------------------
(* Properties of the decoder's chunk walk *)

\* The walk ran: the buffer had the signature.
Walked == dec.st # "idle" /\ Len(buf) >= 8 /\ Subarray(buf, 0, 8) = PNG_SIG

\* The length field of the j-th chunk read.
LengthAt(j) == ReadU32BE(buf, dec.hdr.offsets[j])

\* The data of the j-th chunk read would end past the end of the buffer.
Overlong(j) ==
    /\ LengthAt(j) # Undefined
    /\ dec.hdr.offsets[j] + 8 + LengthAt(j) > Len(buf)

\* The walk starts at 8, each iteration starts inside the buffer and moves on by
\* 12 + length, the tag IEND ends it, and it ends at IEND, at a RangeError or
\* with the offset at or past the end of the buffer.
WalkAdvances ==
    LET offs == dec.hdr.offsets
        types == dec.hdr.types
        n == Len(offs)
    IN  /\ n * 12 <= Len(buf) - 8 + 11
        /\ n >= 1 => offs[1] = 8
        /\ \A j \in 1..n : offs[j] < Len(buf)
        /\ \A j \in 1..(n - 1) :
              /\ offs[j + 1] = offs[j] + 12 + LengthAt(j)
              /\ offs[j + 1] >= offs[j] + 12
              /\ types[j] # IEND
        /\ Len(types) = IF dec.hdr.threw /\ LengthAt(n) = Undefined THEN n - 1 ELSE n
        /\ \/ n = 0 /\ Len(buf) = 8
           \/ n >= 1 /\ dec.hdr.threw
           \/ n >= 1 /\ ~dec.hdr.threw /\ types[n] = IEND
           \/ n >= 1 /\ ~dec.hdr.threw /\ offs[n] + 12 + LengthAt(n) >= Len(buf)

\* C29 as stated: the chunk walk terminates, the offset grows by at least 12
\* per chunk, the walk stops at the first IEND or at the end of the buffer,
\* no chunk after IEND is interpreted, and a length field pointing past the end
\* of the buffer ends in a rejection.
C29_WalkTerminatesOverlongRejects ==
    Walked =>
        /\ WalkAdvances
        /\ (Settled(dec) /\ \E j \in 1..Len(dec.hdr.offsets) : Overlong(j)) =>
              dec.st = "rejected"

\* C29, amended: the same walk; a chunk whose length field points past the end
\* of the buffer is the last one read, and the call rejects there only when it
\* is an IHDR chunk with fewer than 8 data bytes (RangeError): another chunk
\* just ends the walk and the decode goes on with what was gathered.
C29_WalkTerminates ==
    Walked =>
        /\ WalkAdvances
        /\ \A j \in 1..Len(dec.hdr.offsets) :
              Overlong(j) =>
                  /\ j = Len(dec.hdr.offsets)
                  /\ dec.hdr.threw <=>
                        (dec.hdr.types[j] = IHDR /\ Len(buf) - (dec.hdr.offsets[j] + 8) < 8)
        /\ dec.hdr.threw => dec.st = "rejected"

\* A decode resolved although the last chunk's length field said 1000 bytes
\* with one byte left; three chunks were read.
C29_Witness ==
    /\ Walked
    /\ buf = OverlongTextPng
    /\ dec.st = "resolved"
    /\ Len(dec.hdr.offsets) = 3
    /\ Overlong(3)
    /\ LengthAt(3) = 1000

-----------------------------------------------------------------------------
(* Shape of the rasters *)

\* pixels.length == width * height * 4
RasterShaped(img) == Len(img.data) = img.width * img.height * 4

\* The decompressed stream of a decode, and the stream followed by zeros up to
\* height * (1 + stride) bytes.
RawOf(d) == Inflate(d.compressed).raw
NeededBytes(d) ==
    d.hdr.height * (1 + (d.hdr.width * Bpp8(d.hdr.colorType, d.hdr.bitDepth)) \div 8)
ZeroFilled(d) ==
    IF Len(RawOf(d)) >= NeededBytes(d) THEN RawOf(d)
    ELSE RawOf(d) \o Zeros(NeededBytes(d) - Len(RawOf(d)))

\* A decodePNG call that got through the chunk walk and the decompressor
\* resolves with a raster of width * height * 4 bytes: the one its stream
\* gives with zeros in place of the bytes it lacks.
DecodedShaped(d) ==
    (Settled(d) /\ d.inflate # "none" /\ Inflate(d.compressed).ok) =>
        /\ d.st = "resolved"
        /\ d.img.width = d.hdr.width
        /\ d.img.height = d.hdr.height
        /\ RasterShaped(d.img)
        /\ d.img.data = unfilterPNG(ZeroFilled(d), d.hdr.width, d.hdr.height,
                                    d.hdr.colorType, d.hdr.bitDepth)

\* C30: every raster decodePNG resolves with and every raster scaleImage
\* returns has width * height * 4 bytes; a decompressed stream shorter than
\* height * (1 + stride) still resolves, the missing filter and pixel bytes read
\* as 0.
C30_RastersShaped ==
    /\ DecodedShaped(qrDec)
    /\ DecodedShaped(logoDec)
    /\ qrDec.st = "resolved" => RasterShaped(qrDec.img)
    /\ logoDec.st = "resolved" => RasterShaped(logoDec.img)
    /\ RasterShaped(scaled)
    /\ pc \in {"encode", "done"} /\ outEnc # EncIdle =>
          /\ scaled.width = box.targetWidth
          /\ scaled.height = box.targetHeight
    /\ RasterShaped(qrImage)

\* Both images were decoded from streams that end early, and the logo was
\* resampled to a raster with pixels.
C30_Witness ==
    /\ outcome.kind = "resolved"
    /\ Len(RawOf(qrDec)) < NeededBytes(qrDec)
    /\ Len(RawOf(logoDec)) < NeededBytes(logoDec)
    /\ qrDec.st = "resolved"
    /\ logoDec.st = "resolved"
    /\ PixelOf(logoDec.img, 1, 0) = << 1, 2, 0, 0 >>
    /\ PixelOf(logoDec.img, 1, 1) = << 0, 0, 0, 0 >>
    /\ scaled.width * scaled.height >= 1

-----------------------------------------------------------------------------
(* Superseded generations of the hook *)

\* The step settles call i.
Settles(i) ==
    /\ i <= Len(hook.calls)
    /\ hook.calls[i].state = "pending"
    /\ Len(hook'.calls) = Len(hook.calls)
    /\ hook'.calls[i].state # "pending"

\* Call i is in flight and, since its effect started it, the options or enabled
\* changed in a render, regenerate was called, or the component was unmounted.
Outdated(i) ==
    /\ i <= Len(hook.calls)
    /\ hook.calls[i].state = "pending"
    /\ \/ hook.calls[i].cancelled
       \/ i # hook.current
       \/ hook.effectPending
       \/ hook.st.tick # hook.effectDeps.tick
       \/ ~hook.mounted

\* C26 as stated: when the options change, regenerate is called, enabled becomes
\* false or the component unmounts while a generation is in flight, the result
\* or error of that generation is never written to qrCode, error or loading.
C26_OutdatedNeverWritten ==
    [][\A i \in CallIds : (Outdated(i) /\ Settles(i)) => hook'.st = hook.st]_vars

\* C26, amended: once the cleanup of the effect that started a generation has
\* run (at the next run of the effect, or at the unmount), its result or error
\* is never written, in whatever order the old and the new generation settle;
\* every generation but the one of the latest effect run is in that case.  A
\* generation that settles after the change and before that cleanup is written.
C26_CancelledNeverWritten ==
    /\ [][\A i \in CallIds :
             (i <= Len(hook.calls) /\ hook.calls[i].cancelled /\ Settles(i)) =>
                 hook'.st = hook.st]_vars
    /\ [](\A i \in 1..Len(hook.calls) : i # hook.current => hook.calls[i].cancelled)
    /\ [](~hook.mounted => hook.current = 0)

\* The newer generation settled first and its result is the state; the older
\* one settled after it, cancelled, and was never shown.
C26_Witness ==
    \E i, j \in 1..Len(hook.calls) :
        /\ i < j
        /\ hook.calls[i].cancelled
        /\ hook.calls[i].state = "resolved"
        /\ ~hook.calls[i].seen
        /\ hook.calls[j].state = "resolved"
        /\ hook.calls[j].key # hook.calls[i].key
        /\ hook.st.from = j
        /\ hook.st.qrCode = hook.calls[j].key
        /\ ~hook.mounted

-----------------------------------------------------------------------------
(* State of the hook at a render *)

\* A render never returns a result together with an error.
NeverResultAndError ==
    /\ ~(hook.st.qrCode # Null /\ hook.st.error # Null)
    /\ ~(hook.shown.qrCode # Null /\ hook.shown.error # Null)

\* C27 as stated: qrCode and error are never both non-null in a render, and
\* loading is false whenever no generation is in flight for the options of
\* that render.
C27_LoadingOnlyForCurrentOptions ==
    /\ NeverResultAndError
    /\ hook.st.loading =>
          \E i \in 1..Len(hook.calls) :
              /\ hook.calls[i].state = "pending"
              /\ ~hook.calls[i].cancelled
              /\ hook.calls[i].key = hook.optionsRef.key

\* C27, amended: qrCode and error are never both non-null in a render, and
\* loading is false whenever the generation of the latest effect run is not in
\* flight; that generation is for the options of the render that scheduled the
\* effect, which are the current ones once the effect of the latest render has
\* run.
C27_LoadingOnlyWhileInFlight ==
    /\ NeverResultAndError
    /\ hook.st.loading =>
          /\ hook.current # 0
          /\ hook.calls[hook.current].state = "pending"
          /\ ~hook.calls[hook.current].cancelled
          /\ hook.calls[hook.current].key = hook.effectDeps.key
          /\ ~hook.effectPending => hook.calls[hook.current].key = hook.optionsRef.key

\* A render returned loading true and the previous result while the effect for
\* its new options had yet to run.
C27_Witness ==
    /\ hook.shown.loading
    /\ hook.st.loading
    /\ hook.effectPending
    /\ hook.current # 0
    /\ hook.calls[hook.current].key # hook.optionsRef.key
    /\ hook.calls[hook.current].state = "pending"
    /\ hook.shown.qrCode # Null
    /\ hook.shown.error = Null

-----------------------------------------------------------------------------
(* Specification of the formatter registry: registerFormatter and           *)
(* formatContent calls in any order on the module-level Map.  A formatter   *)
(* is known by its name; a content object by its type, its payload and      *)
(* whether it passes the checks of the built-in formatters.                 *)

MaxRegs == 2       \* registerFormatter calls

BuiltIns == { "formatURL", "formatText", "formatContact" }
Formatters == BuiltIns \cup { "custom" }
ContentTypes == { "url", "text", "contact", "email" }
Contents == [type : ContentTypes, payload : { "p" }, valid : BOOLEAN]

\* The Map after the module's three registry.set calls.
InitialRegistry ==
    [t \in { "url", "text", "contact" } |->
        IF t = "url" THEN "formatURL" ELSE IF t = "text" THEN "formatText" ELSE "formatContact"]

\* registry.set(type, formatter)
MapSet(r, type, formatter) ==
    [t \in DOMAIN r \cup { type } |-> IF t = type THEN formatter ELSE r[t]]

Returned(value) == [kind |-> "returned", error |-> "", field |-> "", value |-> value]
Thrown(error, field) == [kind |-> "thrown", error |-> error, field |-> field, value |-> << >>]
NoFormat == [kind |-> "none", error |-> "", field |-> "", value |-> << >>]

\* The field a built-in formatter's validator names when it throws.
FieldOf(f) ==
    IF f = "formatURL" THEN "url" ELSE IF f = "formatText" THEN "text" ELSE "contact.name"

\* formatter(content): a built-in validates and returns the payload, a custom
\* formatter returns its own string.
ApplyFormatter(f, c) ==
    IF f \in BuiltIns
    THEN IF c.valid THEN Returned(<< f, c.payload >>) ELSE Thrown("ValidationError", FieldOf(f))
    ELSE Returned(<< f, c.payload >>)

\* formatContent calling formatURL for a type that has no formatter.
formatContentDefaultURL(r, c) ==
    IF c.type \notin DOMAIN r THEN ApplyFormatter("formatURL", c)
    ELSE ApplyFormatter(r[c.type], c)

formatContent(r, c) ==
    IF c.type \notin DOMAIN r THEN Thrown("ValidationError", "content.type")
    ELSE ApplyFormatter(r[c.type], c)

hasFormatter(r, type) == type \in DOMAIN r

\* log lists the registerFormatter calls made; last is the last formatContent
\* call: its argument, the registry before it and what it returned or threw.
InitRegistry ==
    /\ reg = [map |-> InitialRegistry, log |-> << >>,
              last |-> [content |-> [type |-> "url", payload |-> "p", valid |-> TRUE],
                        before |-> InitialRegistry, result |-> NoFormat]]
    /\ api = << >>
    /\ card = << >>
    /\ PureIdle
    /\ TwoIdle
    /\ StreamIdle
    /\ HookIdle
    /\ CodecIdle
    /\ RasterIdle
    /\ EmbedIdle

RegisterFormatter ==
    /\ Len(reg.log) < MaxRegs
    /\ \E t \in ContentTypes, f \in Formatters :
          reg' = [reg EXCEPT !.map = MapSet(reg.map, t, f),
                             !.log = Append(@, << t, f >>)]
    /\ UNCHANGED <<api, card, codecVars, rasterVars, embedVars,
                   pureVars, twoVars, streamVars, hookVars>>

FormatContent ==
    /\ \E c \in Contents :
          reg' = [reg EXCEPT !.last = [content |-> c, before |-> reg.map,
                                       result |-> formatContent(reg.map, c)]]
    /\ UNCHANGED <<api, card, codecVars, rasterVars, embedVars,
                   pureVars, twoVars, streamVars, hookVars>>

NextRegistry == RegisterFormatter \/ FormatContent

SpecRegistry == InitRegistry /\ [][NextRegistry]_vars

-----------------------------------------------------------------------------
(* Properties of the registry *)

\* The formatter most recently registered for a type: the last registerFormatter
\* call for it, or else the built-in one (none for a type never registered).
RECURSIVE LatestFor(_, _)
LatestFor(log, type) ==
    IF log = << >> THEN (IF type \in DOMAIN InitialRegistry THEN InitialRegistry[type] ELSE "none")
    ELSE IF log[Len(log)][1] = type THEN log[Len(log)][2]
    ELSE LatestFor(SubSeq(log, 1, Len(log) - 1), type)

EverRegistered == { reg.log[i][1] : i \in 1..Len(reg.log) }

\* The registry answers for exactly the built-in types and the types ever
\* registered, a call returns what the latest formatter of its type returns or
\* throws, and a call leaves the registry as it was.
RegistryFollowsLog ==
    /\ \A t \in ContentTypes :
          hasFormatter(reg.map, t) <=> (t \in { "url", "text", "contact" } \cup EverRegistered)
    /\ \A c \in Contents :
          LatestFor(reg.log, c.type) # "none" =>
              formatContent(reg.map, c) = ApplyFormatter(LatestFor(reg.log, c.type), c)

FormatLeavesRegistry ==
    [][reg'.last # reg.last => reg'.map = reg.map]_vars

\* C23 as stated: formatContent(c) returns the result of the formatter most
\* recently registered for c.type, hasFormatter is true exactly for the
\* built-in types and the types ever registered, and formatContent throws
\* ValidationError exactly when no formatter is registered for c.type, leaving
\* the registry unchanged.
C23_ThrowsExactlyWhenUnregistered ==
    /\ RegistryFollowsLog
    /\ reg.last.result.kind # "none" =>
          ((reg.last.result.kind = "thrown" /\ reg.last.result.error = "ValidationError")
              <=> ~hasFormatter(reg.last.before, reg.last.content.type))

\* C23, amended: the same, but formatContent itself throws (ValidationError,
\* field content.type) exactly when no formatter is registered for c.type;
\* with a formatter registered it returns what that formatter returns and
\* throws what it throws, a built-in formatter's ValidationError included.
C23_RegistryFollowsRegistrations ==
    /\ [](RegistryFollowsLog)
    /\ FormatLeavesRegistry
    /\ [](reg.last.result.kind # "none" =>
            /\ (reg.last.result.kind = "thrown" /\ reg.last.result.field = "content.type")
                  <=> ~hasFormatter(reg.last.before, reg.last.content.type)
            /\ hasFormatter(reg.last.before, reg.last.content.type) =>
                  reg.last.result =
                      ApplyFormatter(reg.last.before[reg.last.content.type], reg.last.content))

\* A built-in type was re-registered twice and formatContent returned the
\* string of the second formatter.
C23_Witness ==
    /\ Len(reg.log) = 2
    /\ reg.log[1] = << "url", "formatText" >>
    /\ reg.log[2] = << "url", "custom" >>
    /\ reg.last.content.type = "url"
    /\ ~reg.last.content.valid
    /\ reg.last.before = reg.map
    /\ reg.last.result = Returned(<< "custom", "p" >>)

-----------------------------------------------------------------------------
(* Specification of formatContact: one call on a contact whose name is any  *)
(* string of at most MaxName characters.  A string is a sequence of         *)
(* one-character strings.                                                   *)

MaxName == 5       \* characters of a contact name

NameChars == { "a", "b", " ", ";" }

NamesUpTo(n) == UNION { [1..k -> NameChars] : k \in 0..n }

\* String.prototype.trim
RECURSIVE TrimStart(_)
TrimStart(s) ==
    IF s # << >> /\ Head(s) = " " THEN TrimStart(Tail(s)) ELSE s

RECURSIVE TrimEnd(_)
TrimEnd(s) ==
    IF s # << >> /\ s[Len(s)] = " " THEN TrimEnd(SubSeq(s, 1, Len(s) - 1)) ELSE s

Trim(s) == TrimEnd(TrimStart(s))

\* s.split(/\s+/) for a trimmed s: the maximal runs without white space; the
\* empty string splits into one empty part.
RECURSIVE SplitFrom(_, _, _)
SplitFrom(s, parts, word) ==
    IF s = << >> THEN Append(parts, word)
    ELSE IF Head(s) = " "
         THEN SplitFrom(TrimStart(s), Append(parts, word), << >>)
         ELSE SplitFrom(Tail(s), parts, Append(word, Head(s)))

SplitSpaces(s) == SplitFrom(s, << >>, << >>)

\* parts.join(' ')
RECURSIVE JoinSpace(_)
JoinSpace(parts) ==
    IF parts = << >> THEN << >>
    ELSE IF Len(parts) = 1 THEN parts[1]
    ELSE parts[1] \o << " " >> \o JoinSpace(Tail(parts))

\* Of the characters of the names, only the semicolon is escaped.
RECURSIVE escapeVCard(_)
escapeVCard(value) ==
    IF value = << >> THEN << >>
    ELSE (IF Head(value) = ";" THEN << "\\", ";" >> ELSE << Head(value) >>)
             \o escapeVCard(Tail(value))

buildStructuredName(fullName) ==
    LET parts == SplitSpaces(Trim(fullName))
    IN  IF Len(parts) = 1 THEN escapeVCard(parts[1]) \o << ";", ";", ";", ";" >>
        ELSE LET familyName == parts[Len(parts)]
                 givenName == JoinSpace(SubSeq(parts, 1, Len(parts) - 1))
             IN  escapeVCard(familyName) \o << ";" >> \o escapeVCard(givenName)
                     \o << ";", ";", ";" >>

Phone == << "+", "1" >>

\* The lines of the vCard of a contact with a name and a phone, or the field
\* validateContact rejects.
formatContact(name) ==
    IF name = << >> THEN [thrown |-> "contact.name", lines |-> << >>]
    ELSE [thrown |-> "",
          lines |-> << << "BEGIN:VCARD" >>,
                       << "VERSION:3.0" >>,
                       << "FN:" >> \o escapeVCard(name),
                       << "N:" >> \o buildStructuredName(name),
                       << "TEL:" >> \o escapeVCard(Phone),
                       << "END:VCARD" >> >>]

NotFormatted == [thrown |-> "", lines |-> << >>]

InitContact ==
    /\ \E n \in NamesUpTo(MaxName) : card = [name |-> n, called |-> FALSE, out |-> NotFormatted]
    /\ api = << >>
    /\ reg = << >>
    /\ PureIdle
    /\ TwoIdle
    /\ StreamIdle
    /\ HookIdle
    /\ CodecIdle
    /\ RasterIdle
    /\ EmbedIdle

FormatContact ==
    /\ ~card.called
    /\ card' = [card EXCEPT !.called = TRUE, !.out = formatContact(card.name)]
    /\ UNCHANGED <<api, reg, codecVars, rasterVars, embedVars,
                   pureVars, twoVars, streamVars, hookVars>>

NextContact == FormatContact

SpecContact == InitContact /\ [][NextContact]_vars

-----------------------------------------------------------------------------
(* Properties of formatContact *)

\* The index of the first space of a string, 0 when it has none.
RECURSIVE FirstSpace(_, _)
FirstSpace(s, i) ==
    IF i > Len(s) THEN 0 ELSE IF s[i] = " " THEN i ELSE FirstSpace(s, i + 1)

\* The N: value of a name split on its first space.
SplitOnFirstSpace(name) ==
    LET k == FirstSpace(name, 1)
    IN  IF k = 0 THEN escapeVCard(name) \o << ";", ";", ";", ";" >>
        ELSE escapeVCard(SubSeq(name, k + 1, Len(name))) \o << ";" >>
                 \o escapeVCard(SubSeq(name, 1, k - 1)) \o << ";", ";", ";" >>

NLine == card.out.lines[4]

Words(name) == SplitSpaces(Trim(name))

\* A name written with single spaces between its words and none around them.
PlainlySpaced(name) == JoinSpace(Words(name)) = name

\* C25: formatContact builds the N: field by splitting the full name on its
\* first space, the given name before it and the family name after it
\* (N:family;given;;;), and N:name;;;; for a single word, for names of any
\* number of words.
C25_SplitsOnFirstSpace ==
    (card # << >> /\ card.called /\ card.out.thrown = "" /\ PlainlySpaced(card.name))
        => NLine = << "N:" >> \o SplitOnFirstSpace(card.name)

\* What the code does for every name: the last word is the family name, the
\* words before it, joined by single spaces, are the given name.
ContactLastWordIsFamily ==
    (card # << >> /\ card.called /\ card.out.thrown = "") =>
        LET parts == Words(card.name)
        IN  /\ Len(parts) = 1 =>
                  NLine = << "N:" >> \o escapeVCard(parts[1]) \o << ";", ";", ";", ";" >>
            /\ Len(parts) = 2 /\ PlainlySpaced(card.name) =>
                  NLine = << "N:" >> \o SplitOnFirstSpace(card.name)
            /\ Len(parts) > 1 =>
                  NLine = << "N:" >> \o escapeVCard(parts[Len(parts)]) \o << ";" >>
                              \o escapeVCard(JoinSpace(SubSeq(parts, 1, Len(parts) - 1)))
                              \o << ";", ";", ";" >>

\* A three-word name has been formatted.
ContactThreeWords ==
    /\ card # << >>
    /\ card.called
    /\ card.name = << "a", " ", "b", " ", "a" >>
    /\ NLine = << "N:", "a", ";", "a", " ", "b", ";", ";", ";" >>

-----------------------------------------------------------------------------
(* Specification of generateQRCode: one call with any of a set of options,  *)
(* followed by the settling of the encoder's promise and of embedLogo's.    *)
(* An optional value is a record: undefined, a number, or NaN.  The encoder *)
(* and embedLogo are known by the calls made to them and by whether their   *)
(* promise resolves.                                                        *)

DEFAULT_LOGO_SIZE_PERCENT == 20
DEFAULT_LOGO_MARGIN == 4

NotGiven == "undefined"
Undef == [t |-> "undefined", v |-> 0]
Number(n) == [t |-> "number", v |-> n]
NaN == [t |-> "nan", v |-> 0]

\* typeof x === 'number', x < n and x > n of JavaScript: NaN is a number and
\* compares false with everything.
TypeofNumber(x) == x.t \in { "number", "nan" }
Less(x, n) == x.t = "number" /\ x.v < n
Greater(x, n) == x.t = "number" /\ x.v > n

\* x ?? d
OrDefault(x, d) == IF x.t = "undefined" THEN Number(d) ELSE x

VALID_FORMATS == { "png", "svg", "dataurl" }
VALID_EC_LEVELS == { "L", "M", "Q", "H" }
DEFAULT_EC == "M"
DEFAULT_FORMAT == "png"

NoLogo == [given |-> FALSE, source |-> "", sizePercent |-> Undef, margin |-> Undef]

LogoInputs ==
    { NoLogo } \cup
    [given : { TRUE }, source : { "", "logo.png", "missing.png" },
     sizePercent : { Undef, Number(10), Number(41), NaN },
     margin : { Undef, Number(-1) }]

\* options.content: a string, a typed content object, or something else.
ContentInputs ==
    [kind : { "string" }, type : { "" }, valid : BOOLEAN] \cup
    [kind : { "object" }, type : { "text", "email" }, valid : { TRUE }] \cup
    [kind : { "other" }, type : { "" }, valid : { FALSE }]

OptionInputs ==
    [content : ContentInputs,
     format : { NotGiven, "png", "svg", "dataurl", "gif" },
     size : { Undef, Number(256), Number(0), NaN },
     margin : { Undef, Number(-1) },
     errorCorrectionLevel : { NotGiven, "L", "H", "X" },
     logo : LogoInputs]

\* The field of the ValidationError thrown, "" when nothing is thrown.
validateLogoOptions(logo) ==
    IF logo.source = "" THEN "logo.source"
    ELSE IF logo.sizePercent.t # "undefined"
            /\ (~TypeofNumber(logo.sizePercent) \/ Less(logo.sizePercent, 1)
                   \/ Greater(logo.sizePercent, 40))
         THEN "logo.sizePercent"
    ELSE IF logo.margin.t # "undefined"
            /\ (~TypeofNumber(logo.margin) \/ Less(logo.margin, 0))
         THEN "logo.margin"
    ELSE ""

validateOptions(options) ==
    IF options.format # NotGiven /\ options.format \notin VALID_FORMATS THEN "format"
    ELSE IF options.size.t # "undefined"
            /\ (~TypeofNumber(options.size) \/ Less(options.size, 1)
                   \/ Greater(options.size, 2048))
         THEN "size"
    ELSE IF options.margin.t # "undefined"
            /\ (~TypeofNumber(options.margin) \/ Less(options.margin, 0))
         THEN "margin"
    ELSE IF options.errorCorrectionLevel # NotGiven
            /\ options.errorCorrectionLevel \notin VALID_EC_LEVELS
         THEN "errorCorrectionLevel"
    ELSE IF options.logo.given THEN validateLogoOptions(options.logo)
    ELSE ""

\* normaliseContent followed by formatContent on the built-in registry.
EncodeContent(input) ==
    IF input.kind = "string"
    THEN formatContent(InitialRegistry, [type |-> "url", payload |-> "p", valid |-> input.valid])
    ELSE IF input.kind = "object"
    THEN formatContent(InitialRegistry, [type |-> input.type, payload |-> "p", valid |-> input.valid])
    ELSE Thrown("ValidationError", "content")

ResolvedFormat(options) ==
    IF options.format = NotGiven THEN DEFAULT_FORMAT ELSE options.format

\* The level raised to H whenever a logo is given, an explicit one included.
ErrorCorrectionLogoWins(options) ==
    IF options.logo.given THEN "H"
    ELSE IF options.errorCorrectionLevel = NotGiven THEN DEFAULT_EC
    ELSE options.errorCorrectionLevel

ErrorCorrection(options) ==
    LET errorCorrectionLevel ==
            IF options.errorCorrectionLevel = NotGiven THEN DEFAULT_EC
            ELSE options.errorCorrectionLevel
    IN  IF options.logo.given /\ options.errorCorrectionLevel = NotGiven THEN "H"
        ELSE errorCorrectionLevel

\* The encoder function of a format, the kind of data it resolves with and the
\* MIME type reported for it.
EncoderOf(format) ==
    IF format = "svg" THEN [fn |-> "toString", data |-> "string", mimeType |-> "image/svg+xml"]
    ELSE IF format = "dataurl"
    THEN [fn |-> "toDataURL", data |-> "string", mimeType |-> "text/plain"]
    ELSE [fn |-> "toBuffer", data |-> "buffer", mimeType |-> "image/png"]

\* The logo embedded whatever the format and the data.
LogoAppliesAnyFormat(options, format, data) == options.logo.given

\* options.logo && format === 'png' && Buffer.isBuffer(data)
LogoApplies(options, format, data) ==
    options.logo.given /\ format = "png" /\ data = "buffer"

NoResult == [kind |-> "pending", error |-> "", field |-> "", data |-> "", mimeType |-> "", format |-> ""]
CallRejected(error, field) ==
    [kind |-> "rejected", error |-> error, field |-> field, data |-> "", mimeType |-> "", format |-> ""]
CallResolved(data, mimeType, format) ==
    [kind |-> "resolved", error |-> "", field |-> "", data |-> data, mimeType |-> mimeType,
     format |-> format]

InitGenerate ==
    /\ \E o \in OptionInputs :
          api = [options |-> o, pc |-> "called", encoder |-> << >>, embed |-> << >>,
                 data |-> "", result |-> NoResult]
    /\ reg = << >>
    /\ card = << >>
    /\ PureIdle
    /\ TwoIdle
    /\ StreamIdle
    /\ HookIdle
    /\ CodecIdle
    /\ RasterIdle
    /\ EmbedIdle

\* The synchronous part of generateQRCode, up to the first await.
GenerateStart ==
    /\ api.pc = "called"
    /\ LET options == api.options
           invalid == validateOptions(options)
           encoded == EncodeContent(options.content)
       IN  IF invalid # ""
           THEN api' = [api EXCEPT !.pc = "done", !.result = CallRejected("ValidationError", invalid)]
           ELSE IF encoded.kind = "thrown"
           THEN api' = [api EXCEPT !.pc = "done",
                                   !.result = CallRejected(encoded.error, encoded.field)]
           ELSE api' = [api EXCEPT !.pc = "encoding",
                                   !.encoder = Append(@,
                                       [fn |-> EncoderOf(ResolvedFormat(options)).fn,
                                        errorCorrectionLevel |-> ErrorCorrection(options)])]
    /\ UNCHANGED <<reg, card, codecVars, rasterVars, embedVars,
                   pureVars, twoVars, streamVars, hookVars>>

\* The encoder's promise settles; generateQRCode goes on to embedLogo or returns.
EncoderSettles ==
    /\ api.pc = "encoding"
    /\ LET options == api.options
           format == ResolvedFormat(options)
           e == EncoderOf(format)
       IN  \E ok \in BOOLEAN :
              IF ~ok
              THEN api' = [api EXCEPT !.pc = "done", !.result = CallRejected("Error", "")]
              ELSE IF LogoApplies(options, format, e.data)
              THEN api' = [api EXCEPT
                              !.pc = "embedding",
                              !.data = e.data,
                              !.embed = Append(@,
                                  [source |-> options.logo.source,
                                   sizePercent |-> OrDefault(options.logo.sizePercent,
                                                             DEFAULT_LOGO_SIZE_PERCENT),
                                   margin |-> OrDefault(options.logo.margin,
                                                        DEFAULT_LOGO_MARGIN)])]
              ELSE api' = [api EXCEPT !.pc = "done", !.data = e.data,
                                      !.result = CallResolved(e.data, e.mimeType, format)]
    /\ UNCHANGED <<reg, card, codecVars, rasterVars, embedVars,
                   pureVars, twoVars, streamVars, hookVars>>

\* embedLogo's promise settles: a missing file rejects with LogoError, an
\* existing one resolves or, when it cannot be decoded, rejects with LogoError.
EmbedSettles ==
    /\ api.pc = "embedding"
    /\ LET format == ResolvedFormat(api.options)
       IN  \E ok \in BOOLEAN :
              IF ok /\ api.embed[1].source = "logo.png"
              THEN api' = [api EXCEPT !.pc = "done", !.data = "buffer with logo",
                              !.result = CallResolved("buffer with logo",
                                                  EncoderOf(format).mimeType, format)]
              ELSE api' = [api EXCEPT !.pc = "done", !.result = CallRejected("LogoError", "")]
    /\ UNCHANGED <<reg, card, codecVars, rasterVars, embedVars,
                   pureVars, twoVars, streamVars, hookVars>>

NextGenerate == GenerateStart \/ EncoderSettles \/ EmbedSettles

SpecGenerate == InitGenerate /\ [][NextGenerate]_vars

-----------------------------------------------------------------------------
(* Properties of generateQRCode *)

Called == api # << >>

\* C21: with a logo and format svg or dataurl the logo is ignored: embedLogo
\* is never called (so the logo is never loaded or decoded), no LogoError is
\* raised, and a call whose encoder resolves returns data of the requested
\* format.
C21_LogoIgnoredUnlessPng ==
    (Called /\ api.options.logo.given /\ api.options.format \in { "svg", "dataurl" }) =>
        /\ api.embed = << >>
        /\ api.pc # "embedding"
        /\ api.result.error # "LogoError"
        /\ api.result.kind = "resolved" =>
              /\ api.result.format = api.options.format
              /\ api.result.data = "string"
        /\ (api.pc = "done" /\ api.encoder # << >> /\ api.result.kind = "rejected") =>
              api.result.error = "Error"

\* An svg has been returned for options naming a logo file that does not exist.
C21_Witness ==
    /\ Called
    /\ api.pc = "done"
    /\ api.options.format = "svg"
    /\ api.options.logo.given
    /\ api.options.logo.source = "missing.png"
    /\ api.result.kind = "resolved"
    /\ api.result.format = "svg"
    /\ api.result.mimeType = "image/svg+xml"

\* C22: the level passed to the encoder is the explicit errorCorrectionLevel
\* when one is given, otherwise H when a logo is given and M when none is.
C22_ErrorCorrectionLevel ==
    Called =>
        \A i \in 1..Len(api.encoder) :
            api.encoder[i].errorCorrectionLevel =
                IF api.options.errorCorrectionLevel # NotGiven
                THEN api.options.errorCorrectionLevel
                ELSE IF api.options.logo.given THEN "H" ELSE "M"

\* The encoder has been called with the explicit level L for options with a logo.
C22_Witness ==
    /\ Called
    /\ api.options.logo.given
    /\ api.options.errorCorrectionLevel = "L"
    /\ Len(api.encoder) = 1
    /\ api.encoder[1].errorCorrectionLevel = "L"
    /\ api.pc = "embedding"

\* What the claim calls an invalid logo option: an empty source, a sizePercent
\* that is not a number from 1 to 40, a margin that is not a number from 0 up.
NotWithin(x, lo, hi) == x.t # "undefined" /\ ~(x.t = "number" /\ x.v >= lo /\ x.v <= hi)
NotAtLeast(x, lo) == x.t # "undefined" /\ ~(x.t = "number" /\ x.v >= lo)

InvalidLogoOption(logo) ==
    logo.given /\ (logo.source = "" \/ NotWithin(logo.sizePercent, 1, 40)
                      \/ NotAtLeast(logo.margin, 0))

InvalidOptions(options) ==
    \/ options.format \notin VALID_FORMATS \cup { NotGiven }
    \/ NotWithin(options.size, 1, 2048)
    \/ NotAtLeast(options.margin, 0)
    \/ options.errorCorrectionLevel \notin VALID_EC_LEVELS \cup { NotGiven }
    \/ InvalidLogoOption(options.logo)
    \/ EncodeContent(options.content).kind = "thrown"

\* C24: when any option or the content is invalid the call rejects with
\* ValidationError without calling the encoder and without loading the logo;
\* an invalid logo option never yields LogoError.
C24_InvalidRejectedFirst ==
    (Called /\ InvalidOptions(api.options)) =>
        /\ api.encoder = << >>
        /\ api.embed = << >>
        /\ api.pc = "done" =>
              (api.result.kind = "rejected" /\ api.result.error = "ValidationError")

\* What the code does: options that validateOptions or the formatter rejects
\* never reach the encoder or the logo.
RejectedBeforeEncoding ==
    (Called /\ (validateOptions(api.options) # ""
                   \/ EncodeContent(api.options.content).kind = "thrown")) =>
        /\ api.encoder = << >>
        /\ api.embed = << >>
        /\ api.pc = "done" =>
              (api.result.kind = "rejected" /\ api.result.error = "ValidationError")

\* A logo sizePercent of NaN has passed validation and the call has ended in
\* LogoError.
NaNReachesLogo ==
    /\ Called
    /\ api.options.logo.given
    /\ api.options.logo.sizePercent = NaN
    /\ api.encoder # << >>
    /\ api.embed # << >>
    /\ api.result.error = "LogoError"

====
